---- MODULE Spec2Model ----
(***************************************************************************)
(* Model of the CodeReview pipeline: the bounded worker pool               *)
(* CodeReviewRunner.runConcurrent and the diff chunker chunkString.        *)
(*                                                                         *)
(* JavaScript runs each synchronous stretch of code to completion, so an   *)
(* action is one such stretch: the call of runConcurrent up to its await,  *)
(* the settlement of one handler promise, the continuation of one worker   *)
(* after its await (a promise reaction job, run in FIFO order), and the    *)
(* continuation of runConcurrent after Promise.all.                        *)
(***************************************************************************)
EXTENDS Integers, Sequences, FiniteSets, TLC

\* ------------------------------------------------------------------ bounds
MaxItems == 3          \* largest taskCount tried
MaxConcArg == 11       \* concurrency arguments range over -MaxConcArg..MaxConcArg
MaxLen == 5            \* longest diff string tried
MaxChunkSize == 3      \* largest maxSize tried
ReviewChunkMax == 2    \* stands for the 12000 of reviewDiffForFile
MaxLines == 4          \* most lines in a describe text
MaxSummaryLines == 2   \* most lines in a describe summary
MaxRev == 3            \* largest revision number in a summary line
MaxDiff2Lines == 1     \* most lines in a diff2 output
PreviewMax == 2        \* lines of a diff preview (stands for 40)
MaxFiles == 2          \* most files of a changelist in the multi-file diff
MaxPoolChunks == 2     \* most chunks of one diff in the pooled review
MaxPoolConc == 3       \* largest concurrency given to reviewDiffsConcurrently
MaxRunConc == 1        \* largest opts.concurrency tried by run
MaxSvcConc == 2        \* largest nConcurrency given to the positional run
MaxChanges == 5        \* most changelists `p4 changes` lists
SwarmBatch == 2        \* size of a Swarm lookup batch (stands for 10)
MaxCl == 2             \* largest changelist number given to ViewedStateService

Chars == {"a", "b"}

VARIABLES
  \* runConcurrent
  phase,        \* "idle" | "running" | "returned" | "thrown"
  argSupplied,  \* was a concurrency argument passed
  concurrency,  \* the parameter after its default
  nItems,       \* parameter nItems
  nMax,         \* const nMax
  nNext,        \* let nNext
  results,      \* const results
  errors,       \* const errors
  wpc,          \* worker -> "awaiting" | "done"
  widx,         \* worker -> the idx it is awaiting (-1 when none)
  hstate,       \* idx -> state of the promise handler(idx) returned
  calls,        \* idx -> number of handler(idx) invocations
  jobs,         \* queue of workers whose awaited promise has settled
  rejectOrder,  \* the indices whose handler rejected, in order of rejection
  returned,     \* the list runConcurrent returned
  thrown,       \* the error runConcurrent raised
  \* chunkString
  cpc,          \* "ready" | "done"
  strText,      \* argument strText
  nMaxChunk,    \* argument nMax
  arrChunks,    \* the returned list
  \* AIReviewer.reviewDiffForFile
  rpc,          \* "idle" | "awaitPart" | "awaitMerge" | "returned" | "rejected"
  rDiff,        \* argument strDiff
  rChunks,      \* const arrChunks
  rI,           \* loop variable i
  arrPartials,  \* const arrPartials
  rCalls,       \* the reviewWithOpenAI calls made: prompt, state, reply
  rRet,         \* the review text returned
  \* CodeReviewRunner.run
  runpc,        \* "idle" | "awaitDescribe" | "awaitSummary" | "awaitDiff2" |
                \* "fallbackDone" | "reviewing" | "awaitSummaryReview" |
                \* "returned" | "rejected"
  primaryDiffs, \* what getDiffsForFiles returned
  arrFileDiffs, \* let arrFileDiffs
  entries,      \* buildDiffsViaDiff2FromSummary: const entries
  eI,           \* position of the for-of loop over entries (1-based)
  fbDiffs,      \* buildDiffsViaDiff2FromSummary: const diffs
  fbOutcomes,   \* what happened to each entry the loop has passed
  newArrayDiffs,\* let newArrayDiffs
  vcs,          \* the last request made to the perforce collaborator, the
                \* number of requests made so far by operation, and whether
                \* the describe request was rejected
  reviewLog,    \* the reviewer methods invoked by run
  fsLog,        \* the FsUtils calls made
  outcome,      \* the value run returned
  runErr,       \* the error run raised
  \* the parsing operations of CodeReviewRunner, called on their own
  ppc,          \* "ready" | "done"
  pIn,          \* the arguments: the text (as lines) and the depot path
  pOut,         \* the operation called and the value it returned
  \* reviewDiffsConcurrently with AIReviewer.reviewDiffForFile as reviewer
  poolChunks,   \* idx -> number of chunks of arrFileDiffs[idx].strDiff
  poolCalls,    \* idx -> the reviewWithOpenAI calls of task idx: how many
                \* were started and how many of them are in flight
  \* main() of the command line tool
  clipc,        \* "start" | "awaitDescribe" | "running" | "done" | "exited"
  cliOpts,      \* the options and environment main() reads
  cliOut,       \* what main() printed in dry-run mode, and the exit code
  \* the diff handlers of the editor extension
  xpc,          \* "idle" | "awaitFiles" | "awaitSummary" | "awaitCommand" |
                \* "done" | "raised"
  xIn,          \* the handler called and its arguments
  xUi,          \* the editor commands and messages issued, in order
  \* run of services/CodeReviewRunner.js (positional arguments)
  svcpc,        \* "idle" | "awaitAvailable" | "awaitFiles" | "awaitDescribe" |
                \* "reviewing" | "awaitSummary" | "returned" | "rejected"
  svcArgs,      \* the arguments bSummary and nConcurrency
  svcFiles,     \* const arrFiles
  svcInk,       \* idx -> is extractUnifiedDiffForFile(strDescribe,
                \* arrFiles[idx]).trim() non-empty
  svcNext,      \* let nNext (1-based)
  svcWait,      \* worker -> the idx whose review it awaits, 0 once it has
                \* returned, -1 once it has raised
  svcResults,   \* const arrResults
  svcDocs,      \* the review documents written with writeText, in order
  svcSettled,   \* how run settled and how many review documents had been
                \* written by then
  \* PerforceService.getChangeListInfoForUser
  swpc,         \* "idle" | "awaitChanges" | "awaitInitial" | "returned" |
                \* "rejected"
  swUrl,        \* is the swarmUrl argument truthy
  swInfos,      \* const result: of each ChangeListInfo its loading flag, the
                \* state of its fetchSwarmReview call and its swarmReviewId
  swBatch,      \* the positions of the batch whose Promise.all is awaited
  \* ViewedStateService
  vsStorage,    \* this._storage: the Memento, key -> stored value
  vsLast        \* the last call made: its arguments and whether it called
                \* this._storage.update

schedVars == <<phase, argSupplied, concurrency, nItems, nMax, nNext, results,
               errors, wpc, widx, hstate, calls, jobs, rejectOrder, returned,
               thrown>>
chunkVars == <<cpc, strText, nMaxChunk, arrChunks>>
reviewVars == <<rpc, rDiff, rChunks, rI, arrPartials, rCalls, rRet>>
runVars == <<runpc, primaryDiffs, arrFileDiffs, entries,
             eI, fbDiffs, fbOutcomes, newArrayDiffs, vcs, reviewLog, fsLog,
             outcome, runErr>>
parseVars == <<ppc, pIn, pOut>>
poolVars == <<poolChunks, poolCalls>>
cliVars == <<clipc, cliOpts, cliOut>>
extVars == <<xpc, xIn, xUi>>
svcVars == <<svcpc, svcArgs, svcFiles, svcInk, svcNext, svcWait, svcResults,
             svcDocs, svcSettled>>
swarmVars == <<swpc, swUrl, swInfos, swBatch>>
viewedVars == <<vsStorage, vsLast>>
lateVars == <<svcVars, swarmVars, viewedVars>>
auxVars == <<parseVars, poolVars, cliVars, extVars, lateVars>>
vars == <<schedVars, chunkVars, reviewVars, runVars, auxVars>>

NoValue == [kind |-> "none"]

ParseIdle == ppc = "done" /\ pIn = NoValue /\ pOut = NoValue
PoolIdle == poolChunks = <<>> /\ poolCalls = <<>>
CliIdle == clipc = "done" /\ cliOpts = NoValue /\ cliOut = NoValue
ExtIdle == xpc = "idle" /\ xIn = NoValue /\ xUi = <<>>
SvcIdle ==
  /\ svcpc = "idle"
  /\ svcArgs = NoValue
  /\ svcFiles = <<>>
  /\ svcInk = <<>>
  /\ svcNext = 1
  /\ svcWait = <<>>
  /\ svcResults = <<>>
  /\ svcDocs = <<>>
  /\ svcSettled = NoValue
SwarmIdle == swpc = "idle" /\ swUrl = FALSE /\ swInfos = <<>> /\ swBatch = {}
ViewedIdle == vsStorage = <<>> /\ vsLast = NoValue
LateIdle == SvcIdle /\ SwarmIdle /\ ViewedIdle
AuxIdle == ParseIdle /\ PoolIdle /\ CliIdle /\ ExtIdle /\ LateIdle

ReviewIdle ==
  /\ rpc = "idle"
  /\ rDiff = <<>>
  /\ rChunks = <<>>
  /\ rI = 0
  /\ arrPartials = <<>>
  /\ rCalls = <<>>
  /\ rRet = <<>>

RunIdle ==
  /\ runpc = "idle"
  /\ primaryDiffs = <<>>
  /\ arrFileDiffs = <<>>
  /\ entries = <<>>
  /\ eI = 1
  /\ fbDiffs = <<>>
  /\ fbOutcomes = <<>>
  /\ newArrayDiffs = <<>>
  /\ vcs = [last |-> NoValue, describe |-> 0, summary |-> 0, diff2 |-> 0,
            describeFailed |-> FALSE]
  /\ reviewLog = <<>>
  /\ fsLog = <<>>
  /\ outcome = NoValue
  /\ runErr = NoValue

Max(a, b) == IF a >= b THEN a ELSE b
Min(a, b) == IF a <= b THEN a ELSE b

NoError == <<>>
ErrOf(idx) == <<"err", idx>>
ResOf(idx) == <<"res", idx>>

\* ============================================================ chunkString
\* String.prototype.slice(a, b) for 0 <= a <= b on a string of code units.
Slice(s, a, b) == SubSeq(s, a + 1, Min(b, Len(s)))

ShortEnough(len, nMaxArg) == len <= nMaxArg

SliceEndShort(i, nMaxArg) == i + nMaxArg - 1
SliceEnd(i, nMaxArg) == i + nMaxArg

ChunkStepWide(i, nMaxArg) == i + nMaxArg + 1
ChunkStep(i, nMaxArg) == i + nMaxArg

RECURSIVE ChunkLoop(_, _, _, _)
ChunkLoop(s, nMaxArg, i, acc) ==
  IF i < Len(s)
    THEN ChunkLoop(s, nMaxArg, ChunkStep(i, nMaxArg),
                   Append(acc, Slice(s, i, SliceEnd(i, nMaxArg))))
    ELSE acc

chunkStringNoShortcut(s, nMaxArg) == ChunkLoop(s, nMaxArg, 0, <<>>)
chunkString(s, nMaxArg) ==
  IF ShortEnough(Len(s), nMaxArg)
    THEN <<s>>
    ELSE ChunkLoop(s, nMaxArg, 0, <<>>)

Strings == UNION {[1..n -> Chars] : n \in 0..MaxLen}

ChunkIdle ==
  /\ cpc = "ready" /\ strText = <<>> /\ nMaxChunk = 1 /\ arrChunks = <<>>

ChunkInit ==
  /\ phase = "idle"
  /\ argSupplied = FALSE
  /\ concurrency = 3
  /\ nItems = 0
  /\ nMax = 1
  /\ nNext = 0
  /\ results = <<>>
  /\ errors = <<>>
  /\ wpc = <<>>
  /\ widx = <<>>
  /\ hstate = <<>>
  /\ calls = <<>>
  /\ jobs = <<>>
  /\ rejectOrder = <<>>
  /\ returned = <<>>
  /\ thrown = NoError
  /\ cpc = "ready"
  /\ strText \in Strings
  /\ nMaxChunk \in 1..MaxChunkSize
  /\ arrChunks = <<>>
  /\ ReviewIdle
  /\ RunIdle
  /\ AuxIdle

ChunkCall ==
  /\ cpc = "ready"
  /\ arrChunks' = chunkString(strText, nMaxChunk)
  /\ cpc' = "done"
  /\ UNCHANGED <<strText, nMaxChunk>>
  /\ UNCHANGED <<schedVars, reviewVars, runVars, auxVars>>

\* ========================================================== runConcurrent
\* concurrency || 3
OrDefault(c) == IF c = 0 THEN 3 ELSE c

\* Math.max(1, Math.min(10, concurrency || 3))
EffectiveConcurrency(c) == Max(1, Min(10, OrDefault(c)))

\* Array.from({ length: nMax }, () => worker())
WorkerCountPerItem(nMaxArg, nItemsArg) == nItemsArg
WorkerCount(nMaxArg, nItemsArg) == nMaxArg

\* nNext++
NextAfterClaimSkips(n) == n + 2
NextAfterClaim(n) == n + 1

\* One pass of the worker's loop from `const idx = nNext++` to the await of
\* handler(idx) or to the break.  s holds the closure's locals.
WorkerLoop(s, w) ==
  LET idx == s.nNext
      s1  == [s EXCEPT !.nNext = NextAfterClaim(s.nNext)]
  IN  IF idx >= s.nItems
        THEN [s1 EXCEPT !.wpc[w] = "done", !.widx[w] = -1]
        ELSE [s1 EXCEPT !.wpc[w] = "awaiting", !.widx[w] = idx,
                        !.hstate[idx] = "pending",
                        !.calls[idx] = @ + 1]

\* catch (err) { errors.push({ idx, err }); } and round the loop again
AfterFailureHangs(s, w) == s
AfterFailureStops(s, w) == [s EXCEPT !.wpc[w] = "done", !.widx[w] = -1]
AfterFailure(s, w) == WorkerLoop(s, w)

RECURSIVE StartWorkers(_, _, _)
StartWorkers(s, w, n) ==
  IF w > n THEN s ELSE StartWorkers(WorkerLoop(s, w), w + 1, n)

Locals ==
  [nItems |-> nItems, nNext |-> nNext, results |-> results, errors |-> errors,
   wpc |-> wpc, widx |-> widx, hstate |-> hstate, calls |-> calls]

SetLocals(s) ==
  /\ nNext' = s.nNext
  /\ results' = s.results
  /\ errors' = s.errors
  /\ wpc' = s.wpc
  /\ widx' = s.widx
  /\ hstate' = s.hstate
  /\ calls' = s.calls

SchedIdle ==
  /\ phase = "idle"
  /\ argSupplied = FALSE
  /\ concurrency = 3
  /\ nItems = 0
  /\ nMax = 1
  /\ nNext = 0
  /\ results = <<>>
  /\ errors = <<>>
  /\ wpc = <<>>
  /\ widx = <<>>
  /\ hstate = <<>>
  /\ calls = <<>>
  /\ jobs = <<>>
  /\ rejectOrder = <<>>
  /\ returned = <<>>
  /\ thrown = NoError

Init == SchedIdle /\ ChunkIdle /\ ReviewIdle /\ RunIdle /\ AuxIdle

\* runConcurrent(n, handler [, c]) up to `await Promise.all(...)`
SchedCall(n, supplied, c) ==
  /\ phase = "idle"
  /\ LET conc == IF supplied THEN c ELSE 3
         m    == EffectiveConcurrency(conc)
         k    == WorkerCount(m, n)
         s0   == [nItems |-> n, nNext |-> 0, results |-> <<>>,
                  errors |-> <<>>,
                  wpc |-> [w \in 1..k |-> "new"],
                  widx |-> [w \in 1..k |-> -1],
                  hstate |-> [i \in 0..(n - 1) |-> "none"],
                  calls |-> [i \in 0..(n - 1) |-> 0]]
     IN  /\ argSupplied' = supplied
         /\ concurrency' = conc
         /\ nItems' = n
         /\ nMax' = m
         /\ SetLocals(StartWorkers(s0, 1, k))
  /\ phase' = "running"
  /\ UNCHANGED <<jobs, rejectOrder, returned, thrown>>

Call(n, supplied, c) ==
  SchedCall(n, supplied, c) /\ UNCHANGED <<chunkVars, reviewVars, runVars, auxVars>>

Awaiter(idx) == CHOOSE w \in DOMAIN wpc : wpc[w] = "awaiting" /\ widx[w] = idx

\* the promise handler(idx) returned settles: "value", "undefined", "rejected"
SchedSettle(idx, out) ==
  /\ phase = "running"
  /\ idx \in DOMAIN hstate
  /\ hstate[idx] = "pending"
  /\ hstate' = [hstate EXCEPT ![idx] = out]
  /\ jobs' = Append(jobs, Awaiter(idx))
  /\ rejectOrder' = IF out = "rejected" THEN Append(rejectOrder, idx)
                                        ELSE rejectOrder
  /\ UNCHANGED <<phase, argSupplied, concurrency, nItems, nMax, nNext,
                 results, errors, wpc, widx, calls, returned, thrown>>

HandlerSettle(idx, out) ==
  SchedSettle(idx, out) /\ UNCHANGED <<chunkVars, reviewVars, runVars, auxVars>>

\* if (res !== undefined) results.push(res)
CollectAll(res, idx, out) == Append(res, ResOf(idx))
Collect(res, idx, out) ==
  IF out = "value" THEN Append(res, ResOf(idx)) ELSE res

\* the worker at the head of the job queue continues after its await
SchedResume ==
  /\ phase = "running"
  /\ jobs # <<>>
  /\ LET w   == Head(jobs)
         idx == widx[w]
         out == hstate[idx]
         s   == Locals
     IN  IF out = "rejected"
           THEN SetLocals(AfterFailure(
                  [s EXCEPT !.errors = Append(@, [idx |-> idx,
                                                  err |-> ErrOf(idx)])], w))
           ELSE SetLocals(WorkerLoop(
                  [s EXCEPT !.results = Collect(@, idx, out)], w))
  /\ jobs' = Tail(jobs)
  /\ UNCHANGED <<phase, argSupplied, concurrency, nItems, nMax, rejectOrder,
                 returned, thrown>>

WorkerResume == SchedResume /\ UNCHANGED <<chunkVars, reviewVars, runVars, auxVars>>

\* await Promise.all(workers)
AnyWorkerDone == \E w \in DOMAIN wpc : wpc[w] = "done"
AllWorkersDone == \A w \in DOMAIN wpc : wpc[w] = "done"

\* if (errors.length)
NeverHasErrors(errs) == FALSE
HasErrors(errs) == Len(errs) > 0

\* throw errors[0].err
LastError(errs) == errs[Len(errs)].err
ThrownError(errs) == errs[1].err

SchedFinish ==
  /\ phase = "running"
  /\ AllWorkersDone
  /\ IF HasErrors(errors)
       THEN /\ phase' = "thrown"
            /\ thrown' = ThrownError(errors)
            /\ UNCHANGED returned
       ELSE /\ phase' = "returned"
            /\ returned' = results
            /\ UNCHANGED thrown
  /\ UNCHANGED <<argSupplied, concurrency, nItems, nMax, nNext, results,
                 errors, wpc, widx, hstate, calls, jobs, rejectOrder>>

Finish == SchedFinish /\ UNCHANGED <<chunkVars, reviewVars, runVars, auxVars>>

ConcArgs == (0 - MaxConcArg)..MaxConcArg

Next ==
  \/ \E n \in 0..MaxItems, c \in ConcArgs : Call(n, TRUE, c)
  \/ \E n \in 0..MaxItems : Call(n, FALSE, 0)
  \/ \E idx \in 0..(MaxItems - 1), out \in {"value", "undefined", "rejected"} :
       HandlerSettle(idx, out)
  \/ WorkerResume
  \/ Finish

Spec == Init /\ [][Next]_vars

ChunkNext == ChunkCall

ChunkSpec == ChunkInit /\ [][ChunkNext]_vars

\* ================================================================= claims
Finished == phase \in {"returned", "thrown"}
Failed == {i \in DOMAIN hstate : hstate[i] = "rejected"}
Awaiting == {w \in DOMAIN wpc : wpc[w] = "awaiting"}
Pending == {i \in DOMAIN hstate : hstate[i] = "pending"}
Indices == 0..(nItems - 1)
MinOf(S) == CHOOSE x \in S : \A y \in S : x <= y
ErrorIdxs == {errors[k].idx : k \in DOMAIN errors}

\* C1: the handler is invoked exactly once for each index in [0, nItems):
\* never twice for one index, never for two workers at once, and once
\* runConcurrent has settled every index has been invoked.
C1_ExactlyOnce ==
  /\ DOMAIN calls = Indices
  /\ \A i \in DOMAIN calls : calls[i] <= 1
  /\ \A w1, w2 \in Awaiting : w1 # w2 => widx[w1] # widx[w2]
  /\ Finished => \A i \in Indices : calls[i] = 1

C1_Witness ==
  /\ phase = "returned" /\ nItems >= 3 /\ nMax = 2
  /\ \A i \in Indices : calls[i] = 1

\* C2: a failing handler is recorded with its index and error and stops
\* no worker: when runConcurrent settles after failures, every index has
\* still been handed to the handler and every failure is in errors.
C2_FailureKeepsPulling ==
  (Finished /\ Failed # {}) =>
     /\ \A i \in Indices : calls[i] = 1 /\ hstate[i] # "none"
     /\ ErrorIdxs = Failed
     /\ Len(errors) = Cardinality(Failed)
     /\ \A k \in DOMAIN errors : errors[k].err = ErrOf(errors[k].idx)

C2_Witness ==
  /\ Finished /\ nMax = 1 /\ nItems >= 3
  /\ Failed = {0, 1}
  /\ calls[2] = 1 /\ hstate[2] = "value"

\* C3: runConcurrent raises or returns only after all workers have finished:
\* then no handler call is in flight, no continuation is queued and no
\* index is left unclaimed.
C3_SettlesAfterDrain ==
  Finished =>
     /\ Pending = {}
     /\ Awaiting = {}
     /\ jobs = <<>>
     /\ \A w \in DOMAIN wpc : wpc[w] = "done"
     /\ nNext >= nItems
     /\ \A i \in Indices : calls[i] >= 1

C3_Witness ==
  /\ phase = "thrown" /\ nItems >= 2 /\ nMax >= 2
  /\ Pending = {} /\ Failed # {} /\ Failed # Indices

\* C4 as stated: the error raised is the error of the failed task with the
\* lowest index.
C4_LowestIndexRaised ==
  phase = "thrown" => thrown = ErrOf(MinOf(Failed))

\* C4 amended: the error raised is the error of the failure recorded first,
\* that of the task whose handler rejected first; with one worker that is
\* the failed task with the lowest index.
C4_FirstRecordedRaised ==
  phase = "thrown" =>
     /\ rejectOrder # <<>>
     /\ thrown = ErrOf(Head(rejectOrder))
     /\ thrown = errors[1].err
     /\ nMax = 1 => thrown = ErrOf(MinOf(Failed))

C4_Witness ==
  /\ phase = "thrown" /\ Cardinality(Failed) >= 2
  /\ thrown # ErrOf(MinOf(Failed))

\* C5: runConcurrent returns a list iff no task failed; if a task failed it
\* raises the error of a task that did fail and the caller gets no list.
C5_ResultsIffNoFailure ==
  /\ phase = "returned" => (Failed = {} /\ thrown = NoError /\ returned = results)
  /\ phase = "thrown" =>
        /\ Failed # {}
        /\ \E i \in Failed : thrown = ErrOf(i)
        /\ returned = <<>>
  /\ (Finished /\ Failed = {}) => phase = "returned"

C5_Witness ==
  /\ phase = "thrown" /\ nItems = 3 /\ argSupplied /\ concurrency = 2
  /\ Failed = {1} /\ thrown = ErrOf(1)
  /\ Len(results) = 2 /\ returned = <<>>

\* C6: at every moment at most min(nMax, nItems) workers are executing a
\* handler, and nMax never exceeds 10.
C6_BoundedFanOut ==
  /\ Cardinality(Awaiting) <= Min(nMax, nItems)
  /\ Cardinality(Pending) <= Min(nMax, nItems)
  /\ nMax \in 1..10

C6_Witness ==
  /\ phase = "running" /\ nItems > nMax /\ nMax >= 2
  /\ Cardinality(Pending) = nMax

\* C7 as stated: the number of workers is the concurrency argument clamped
\* to [1, 10], for every integer argument, and 3 when none is supplied.
C7_ClampedWorkers ==
  phase # "idle" =>
     /\ nMax = (IF argSupplied THEN Max(1, Min(10, concurrency)) ELSE 3)
     /\ Cardinality(DOMAIN wpc) = nMax

RECURSIVE Concat(_)
Concat(ss) == IF ss = <<>> THEN <<>> ELSE Head(ss) \o Concat(Tail(ss))

CeilDiv(a, b) == (a + b - 1) \div b

\* C8: the chunks concatenated in order give back the text, and there are
\* ceil(len/maxSize) of them, or 1 for the empty text.
C8_RoundTrip ==
  cpc = "done" =>
     /\ Concat(arrChunks) = strText
     /\ Len(arrChunks) = (IF Len(strText) = 0 THEN 1
                            ELSE CeilDiv(Len(strText), nMaxChunk))

C8_Witness ==
  /\ cpc = "done" /\ Len(strText) > nMaxChunk
  /\ Len(strText) % nMaxChunk # 0 /\ Len(arrChunks) >= 2

\* C9: a text no longer than maxSize comes back as exactly one chunk equal
\* to the text.
C9_SinglePassthrough ==
  (cpc = "done" /\ Len(strText) <= nMaxChunk) => arrChunks = <<strText>>

C9_Witness ==
  /\ cpc = "done" /\ Len(strText) = nMaxChunk /\ arrChunks = <<strText>>

\* C10: for a text longer than maxSize every chunk has 1..maxSize characters,
\* every chunk but the last has maxSize, and chunk k is the slice of the
\* text that starts at offset k * maxSize.
C10_ContiguousSlices ==
  (cpc = "done" /\ Len(strText) > nMaxChunk) =>
     \A k \in DOMAIN arrChunks :
        /\ Len(arrChunks[k]) >= 1
        /\ Len(arrChunks[k]) <= nMaxChunk
        /\ k < Len(arrChunks) => Len(arrChunks[k]) = nMaxChunk
        /\ arrChunks[k] = SubSeq(strText, (k - 1) * nMaxChunk + 1,
                                 (k - 1) * nMaxChunk + Len(arrChunks[k]))

C10_Witness ==
  /\ cpc = "done" /\ Len(strText) > nMaxChunk /\ Len(arrChunks) >= 3
  /\ Len(arrChunks[Len(arrChunks)]) < nMaxChunk

\* ====================================================== reviewDiffForFile
Replies == {"r1", "r2"}

\* buildPrompt(strInstructions, strDepotFile, `Part ${i + 1}/${n}\n\n${chunk}`)
PartPrompt(i, chunks) ==
  [kind |-> "part", part |-> i + 1, of |-> Len(chunks), text |-> chunks[i + 1],
   partials |-> <<>>]

\* `Combine these per-chunk reviews ... ${arrPartials.map(...).join('\n\n')}`
MergePrompt(partials) ==
  [kind |-> "merge", part |-> 0, of |-> Len(partials), text |-> <<>>,
   partials |-> partials]

NewCall(prompt) == [prompt |-> prompt, state |-> "pending", reply |-> ""]

\* if (arrPartials.length === 1) return arrPartials[0];
AlwaysMerge(partials) == FALSE
SingleReview(partials) == Len(partials) = 1

ReviewInit ==
  /\ SchedIdle /\ ChunkIdle /\ RunIdle /\ AuxIdle
  /\ rpc = "idle"
  /\ rDiff \in Strings
  /\ rChunks = <<>>
  /\ rI = 0
  /\ arrPartials = <<>>
  /\ rCalls = <<>>
  /\ rRet = <<>>

\* reviewDiffForFile(strInstructions, strDepotFile, strDiff) up to the first
\* await: chunkString never returns an empty list, so a part call is made.
ReviewCall ==
  /\ rpc = "idle"
  /\ LET chunks == chunkString(rDiff, ReviewChunkMax)
     IN  /\ rChunks' = chunks
         /\ rCalls' = <<NewCall(PartPrompt(0, chunks))>>
  /\ rI' = 0
  /\ arrPartials' = <<>>
  /\ rpc' = "awaitPart"
  /\ UNCHANGED <<rDiff, rRet>>
  /\ UNCHANGED <<schedVars, chunkVars, runVars, auxVars>>

Settled(callsLog, st, r) ==
  [callsLog EXCEPT ![Len(callsLog)] = [@ EXCEPT !.state = st, !.reply = r]]

\* the part call resolves: push, i++, then the next part call, the return
\* of the only partial, or the merge call
ReviewPartResolve(r) ==
  /\ rpc = "awaitPart"
  /\ LET partials == Append(arrPartials, r)
         i        == rI + 1
         log      == Settled(rCalls, "resolved", r)
     IN  /\ arrPartials' = partials
         /\ rI' = i
         /\ IF i < Len(rChunks)
              THEN /\ rCalls' = Append(log, NewCall(PartPrompt(i, rChunks)))
                   /\ rpc' = "awaitPart"
                   /\ UNCHANGED rRet
              ELSE IF SingleReview(partials)
                THEN /\ rCalls' = log
                     /\ rpc' = "returned"
                     /\ rRet' = <<partials[1]>>
                ELSE /\ rCalls' = Append(log, NewCall(MergePrompt(partials)))
                     /\ rpc' = "awaitMerge"
                     /\ UNCHANGED rRet
  /\ UNCHANGED <<rDiff, rChunks>>
  /\ UNCHANGED <<schedVars, chunkVars, runVars, auxVars>>

\* return await this.reviewWithOpenAI(strMergePrompt)
ReviewMergeResolve(r) ==
  /\ rpc = "awaitMerge"
  /\ rCalls' = Settled(rCalls, "resolved", r)
  /\ rRet' = <<r>>
  /\ rpc' = "returned"
  /\ UNCHANGED <<rDiff, rChunks, rI, arrPartials>>
  /\ UNCHANGED <<schedVars, chunkVars, runVars, auxVars>>

\* a reviewWithOpenAI call rejects: the await throws out of reviewDiffForFile
ReviewReject ==
  /\ rpc \in {"awaitPart", "awaitMerge"}
  /\ rCalls' = Settled(rCalls, "rejected", "")
  /\ rpc' = "rejected"
  /\ UNCHANGED <<rDiff, rChunks, rI, arrPartials, rRet>>
  /\ UNCHANGED <<schedVars, chunkVars, runVars, auxVars>>

ReviewNext ==
  \/ ReviewCall
  \/ \E r \in Replies : ReviewPartResolve(r)
  \/ \E r \in Replies : ReviewMergeResolve(r)
  \/ ReviewReject

ReviewSpec == ReviewInit /\ [][ReviewNext]_vars

PartCalls == {k \in DOMAIN rCalls : rCalls[k].prompt.kind = "part"}
MergeCalls == {k \in DOMAIN rCalls : rCalls[k].prompt.kind = "merge"}
NChunks == Len(rChunks)

\* C11: a single-chunk diff gets exactly one reviewer call and no merge; an
\* N-chunk diff gets N part calls in chunk order and then one merge call,
\* issued after all N part calls have resolved and given their N replies in
\* chunk order; the text returned is the only review, or the merge's reply.
C11_ChunkReviewsThenMerge ==
  /\ rpc # "idle" => NChunks >= 1 /\ rChunks = chunkString(rDiff, ReviewChunkMax)
  /\ Cardinality(PartCalls) <= NChunks
  /\ \A k \in PartCalls :
        /\ k <= NChunks
        /\ rCalls[k].prompt.part = k
        /\ rCalls[k].prompt.text = rChunks[k]
  /\ Cardinality(MergeCalls) <= 1
  /\ \A k \in MergeCalls :
        /\ NChunks > 1
        /\ k = NChunks + 1
        /\ \A j \in 1..NChunks : rCalls[j].state = "resolved"
        /\ rCalls[k].prompt.partials = [j \in 1..NChunks |-> rCalls[j].reply]
  /\ rpc = "returned" =>
        IF NChunks = 1
          THEN Len(rCalls) = 1 /\ rRet = <<rCalls[1].reply>>
          ELSE /\ Len(rCalls) = NChunks + 1
               /\ rRet = <<rCalls[NChunks + 1].reply>>

C11_Witness ==
  /\ rpc = "returned" /\ NChunks >= 3 /\ Len(rCalls) = NChunks + 1
  /\ rCalls[1].reply # rCalls[2].reply

\* ======================================================= describe parsing
\* A text is the list of its lines (strDescribe.split(/\r?\n/), never
\* empty).  A line is a per-file header "==== <path>#rev (type) ====" (path
\* <<>> when the header body holds no //depot path), a diff line, a blank
\* line, a "Binary files a and b differ" line or a line holding "(binary)".
\* A depot path is the sequence of the characters that tell it apart, so
\* that one path can be a substring of another.
Paths == {<<"a">>, <<"a", "p">>, <<"b">>}
NoPath == <<>>

HeaderLine(path) == [kind |-> "header", path |-> path]
BodyLine(k) == [kind |-> k, path |-> NoPath]

DescribeLines ==
  {HeaderLine(q) : q \in Paths \cup {NoPath}}
    \cup {BodyLine(k) : k \in {"text", "blank", "binary", "binmark"}}

RECURSIVE SeqsUpTo(_, _)
SeqsUpTo(S, n) ==
  IF n = 0 THEN {<<>>}
  ELSE LET shorter == SeqsUpTo(S, n - 1)
       IN  shorter \cup {Append(t, x) : t \in {u \in shorter : Len(u) = n - 1},
                                        x \in S}

Texts(S, n) == SeqsUpTo(S, n) \ {<<>>}

\* the characters of one line, as atoms of a string
LineText(l) ==
  CASE l.kind = "header"  -> <<"====">>
    [] l.kind = "text"    -> <<"t">>
    [] l.kind = "binary"  -> <<"Binary files a and b differ">>
    [] l.kind = "binmark" -> <<"(binary)">>
    [] OTHER              -> <<>>

\* arr.join('\n')
RECURSIVE Join(_)
Join(ls) ==
  IF ls = <<>> THEN <<>>
  ELSE IF Len(ls) = 1 THEN LineText(ls[1])
  ELSE LineText(ls[1]) \o <<"\n">> \o Join(Tail(ls))

\* str.trim() is not the empty string
AnyText(str) == TRUE
NonBlank(str) == \E k \in DOMAIN str : str[k] # "\n"

\* /^==== .+ ====$/ and /^====\s+(.+?)\s+====$/
IsHeader(l) == l.kind = "header"

\* headerBody.match(/(\/\/[\S]+?)(?:#[^\s]+)?(?:\s|$)/)
HasDepotPath(l) == l.path # NoPath

\* the filter with the `seen` set, lines 36-37
KeepAll(fs, seen) == fs
RECURSIVE Dedup(_, _)
Dedup(fs, seen) ==
  IF fs = <<>> THEN <<>>
  ELSE IF Head(fs) \in seen THEN Dedup(Tail(fs), seen)
  ELSE <<Head(fs)>> \o Dedup(Tail(fs), seen \cup {Head(fs)})

RECURSIVE HeaderPaths(_)
HeaderPaths(ls) ==
  IF ls = <<>> THEN <<>>
  ELSE IF IsHeader(Head(ls)) /\ HasDepotPath(Head(ls))
         THEN <<Head(ls).path>> \o HeaderPaths(Tail(ls))
         ELSE HeaderPaths(Tail(ls))

parseDepotFilesFromDescribe(ls) == Dedup(HeaderPaths(ls), {})

IsSubstr(q, h) ==
  \E i \in 0..(Len(h) - Len(q)) : SubSeq(h, i + 1, i + Len(q)) = q

\* new RegExp(`^==== .*${escaped strDepotFile}.*====$`).test(line)
ThisFile(l, q) == IsHeader(l) /\ IsSubstr(q, l.path)

\* 1-based position of the first line from position `from` on that is a
\* header (of q when q # NoPath), or Len(ls) + 1 when there is none
RECURSIVE FirstHeader(_, _, _)
FirstHeader(ls, from, q) ==
  IF from > Len(ls) THEN Len(ls) + 1
  ELSE IF (IF q = NoPath THEN IsHeader(ls[from]) ELSE ThisFile(ls[from], q))
         THEN from
         ELSE FirstHeader(ls, from + 1, q)

\* /^Binary files .+ and .+ differ$/m.test(strBody) || /\(binary\)/i.test(strBody)
IsBinaryBody(ls) ==
  \E k \in DOMAIN ls : ls[k].kind \in {"binary", "binmark"}

extractUnifiedDiffForFile(ls, q) ==
  LET h == FirstHeader(ls, 1, q)
  IN  IF h > Len(ls) THEN <<>>
      ELSE LET nEnd == FirstHeader(ls, h + 1, NoPath)
               bodyLines == SubSeq(ls, h + 1, nEnd - 1)
           IN  IF IsBinaryBody(bodyLines) THEN <<>> ELSE Join(bodyLines)

FileDiff(f, d) == [strDepotFile |-> f, strDiff |-> d]

RECURSIVE getDiffsForFiles(_, _)
getDiffsForFiles(ls, files) ==
  IF files = <<>> THEN <<>>
  ELSE LET strDiff == extractUnifiedDiffForFile(ls, Head(files))
           rest == getDiffsForFiles(ls, Tail(files))
       IN  IF NonBlank(strDiff) THEN <<FileDiff(Head(files), strDiff)>> \o rest
                                ELSE rest

\* A summary line is "... <file>#<rev> <action>" or anything else.
SummaryPaths == {<<"a">>, <<"b">>}
RevLine(f, r, a) == [kind |-> "rev", file |-> f, rev |-> r, action |-> a]
OtherLine == [kind |-> "other", file |-> NoPath, rev |-> 0, action |-> ""]
SummaryLines ==
  {RevLine(f, r, a) : f \in SummaryPaths, r \in 0..MaxRev, a \in {"add", "edit"}}
    \cup {OtherLine}

\* line.match(/^\.\.\.\s+(\/\/\S+?)#(\d+)\s+(\w+)/)
RECURSIVE parseFilesAndRevsFromDescribeSummary(_)
parseFilesAndRevsFromDescribeSummary(ls) ==
  IF ls = <<>> THEN <<>>
  ELSE LET l == Head(ls)
           rest == parseFilesAndRevsFromDescribeSummary(Tail(ls))
       IN  IF l.kind = "rev"
             THEN <<[file |-> l.file, rev |-> l.rev, action |-> l.action]>>
                    \o rest
             ELSE rest

Diff2Lines == {HeaderLine(NoPath), BodyLine("text"), BodyLine("blank")}

\* lines.slice(start).join('\n'), start after the first /^====\s+/ line
extractUnifiedBodyFromDiff2Output(ls) ==
  LET h == FirstHeader(ls, 1, NoPath)
      start == IF h > Len(ls) THEN 0 ELSE h
  IN  Join(SubSeq(ls, start + 1, Len(ls)))

\* the texts the perforce collaborator can answer with
DescribeTexts == Texts(DescribeLines, MaxLines)
SummaryTexts == Texts(SummaryLines, MaxSummaryLines)
Diff2Texts == Texts(Diff2Lines, MaxDiff2Lines)

\* ===================================================== CodeReviewRunner.run
\* JavaScript values that reach reviewSingleDiff
Undefined == [type |-> "undefined", str |-> <<>>, obj |-> <<>>]
Str(x) == [type |-> "string", str |-> x, obj |-> <<>>]
Obj(fd) == [type |-> "object", str |-> <<>>, obj |-> <<fd>>]

\* const { strDepotFile, strDiff } = value
Destructure(v) ==
  IF v.type = "object"
    THEN [strDepotFile |-> Str(v.obj[1].strDepotFile),
          strDiff |-> Str(v.obj[1].strDiff)]
    ELSE [strDepotFile |-> Undefined, strDiff |-> Undefined]

\* reviewDiffForFile starts with chunkString(strDiff, 12000), which reads
\* strDiff.length: a TypeError when strDiff is undefined
ReviewThrowsTypeError(arg) == arg.strDiff.type # "string"

HandlerOutcomes(arg) ==
  IF ReviewThrowsTypeError(arg) THEN {"rejected"} ELSE {"value", "rejected"}

\* newArrayDiffs[0] += strDiff, twice for every FileDiff
RECURSIVE Doubled(_)
Doubled(diffs) ==
  IF diffs = <<>> THEN <<>>
  ELSE Head(diffs).strDiff \o Head(diffs).strDiff \o Doubled(Tail(diffs))

RECURSIVE PathsOf(_)
PathsOf(rs) ==
  IF rs = <<>> THEN <<>> ELSE <<Head(rs).strDepotFile>> \o PathsOf(Tail(rs))

Outcome(files) ==
  [kind |-> "outcome", arrFilesReviewed |-> files, nFiles |-> Len(files)]
RunError(k, e) == [kind |-> k, err |-> e]

\* if (arrFileDiffs.length === 0) { arrFileDiffs = await build...(cl, shelved) }
FallbackWhenNoFiles(files, diffs) == Len(files) = 0
NeedFallback(files, diffs) == Len(diffs) = 0

\* if (arrFileDiffs.length === 0) return { arrFilesReviewed: [], nFiles: 0 }
NeverNoDiffs(diffs) == FALSE
NoDiffs(diffs) == Len(diffs) = 0

\* Math.max(1, (e.rev || 1) - 1)
FromRevUnclamped(r) == r - 1
FromRev(r) == Max(1, (IF r = 0 THEN 1 ELSE r) - 1)

\* the two `continue`s before the try
SkipEntry(e) == (e.action = "add" /\ e.rev <= 1) \/ e.rev <= 0

\* catch (err) { } inside the loop: on to the next entry
StopAfterDiff2Failure(i, n) == n + 1
AfterDiff2Failure(i, n) == i + 1

\* `await this.getDescribe(cl, shelved)` is under no try
DescribeFailureSwallowed == FALSE
DescribeFailureFatal == TRUE

RECURSIVE Ascending(_)
Ascending(S) ==
  IF S = {} THEN <<>>
  ELSE LET m == CHOOSE x \in S : \A y \in S : x <= y
       IN  <<m>> \o Ascending(S \ {m})

\* the reviewSingleDiff calls made while the scheduler went from counts c0
\* to counts c1, as [idx, the arguments handed to reviewer.reviewDiffForFile]
Invocations(c0, c1, tasks) ==
  LET new == {i \in DOMAIN c1 : c1[i] > (IF i \in DOMAIN c0 THEN c0[i] ELSE 0)}
      asc == Ascending(new)
  IN  [k \in DOMAIN asc |->
         [method |-> "reviewDiffForFile", idx |-> asc[k],
          arg |-> Destructure(tasks[asc[k] + 1])]]

\* one more request to this.perforce
Requested(v, req) ==
  [v EXCEPT !.last = req, ![req.op] = @ + 1]

RunInit == SchedIdle /\ ChunkIdle /\ ReviewIdle /\ RunIdle /\ AuxIdle

\* lines 231-239 after the worklist is known
Schedule(diffs) ==
  /\ arrFileDiffs' = diffs
  /\ IF NoDiffs(diffs)
       THEN /\ runpc' = "returned"
            /\ outcome' = Outcome(<<>>)
            /\ UNCHANGED <<newArrayDiffs, reviewLog>>
            /\ UNCHANGED schedVars
       ELSE LET tasks == <<Str(Doubled(diffs))>>
            IN  /\ newArrayDiffs' = tasks
                /\ \E c \in 1..MaxRunConc : SchedCall(Len(tasks), TRUE, c)
                /\ reviewLog' = reviewLog \o Invocations(<<>>, calls', tasks)
                /\ runpc' = "reviewing"
                /\ UNCHANGED outcome

\* the for-of loop of buildDiffsViaDiff2FromSummary from entry i on, up to
\* the next await or to `return diffs` (runpc "fallbackDone")
RECURSIVE SkipFrom(_, _, _)
SkipFrom(es, i, outs) ==
  IF i > Len(es) THEN [i |-> i, outs |-> outs]
  ELSE IF SkipEntry(es[i]) THEN SkipFrom(es, i + 1, Append(outs, "skipped"))
  ELSE [i |-> i, outs |-> outs]

Diff2Request(e) ==
  [op |-> "diff2", file |-> e.file, from |-> FromRev(e.rev), to |-> e.rev]

FallbackLoop(es, i, outs, diffs) ==
  LET st == SkipFrom(es, i, outs)
  IN  /\ entries' = es
      /\ eI' = st.i
      /\ fbOutcomes' = st.outs
      /\ fbDiffs' = diffs
      /\ IF st.i > Len(es)
           THEN /\ runpc' = "fallbackDone"
                /\ UNCHANGED vcs
           ELSE /\ vcs' = Requested(vcs, Diff2Request(es[st.i]))
                /\ runpc' = "awaitDiff2"
      /\ UNCHANGED <<arrFileDiffs, newArrayDiffs, reviewLog, outcome>>
      /\ UNCHANGED schedVars

\* run(opts) up to `await this.getDescribe(cl, shelved)`
RunBegin ==
  /\ runpc = "idle"
  /\ runpc' = "awaitDescribe"
  /\ vcs' = Requested(vcs, [op |-> "describe", file |-> NoPath,
                            from |-> 0, to |-> 0])
  /\ UNCHANGED <<primaryDiffs, arrFileDiffs, entries, eI, fbDiffs, fbOutcomes,
                 newArrayDiffs, reviewLog, fsLog, outcome, runErr>>
  /\ UNCHANGED <<schedVars, chunkVars, reviewVars>>

RunStart == RunBegin /\ UNCHANGED auxVars

\* lines 211-224 and on, once the describe text is there
AfterDescribe(txt, v) ==
  LET files == parseDepotFilesFromDescribe(txt)
      diffs == getDiffsForFiles(txt, files)
  IN  /\ fsLog' = fsLog \o <<"ensureDir", "readText">>
      /\ primaryDiffs' = diffs
      /\ IF NeedFallback(files, diffs)
           THEN /\ runpc' = "awaitSummary"
                /\ vcs' = Requested(v, [op |-> "summary", file |-> NoPath,
                                        from |-> 0, to |-> 0])
                /\ UNCHANGED <<arrFileDiffs, newArrayDiffs, reviewLog, outcome>>
                /\ UNCHANGED schedVars
           ELSE /\ Schedule(diffs)
                /\ vcs' = v
      /\ UNCHANGED <<entries, eI, fbDiffs, fbOutcomes>>

RunDescribeResolve ==
  /\ runpc = "awaitDescribe"
  /\ \E txt \in DescribeTexts :
     /\ AfterDescribe(txt, vcs)
     /\ UNCHANGED runErr
     /\ UNCHANGED <<chunkVars, reviewVars, auxVars>>

RunDescribeReject ==
  /\ runpc = "awaitDescribe"
  /\ IF DescribeFailureFatal
       THEN /\ runpc' = "rejected"
            /\ runErr' = RunError("describe", NoError)
            /\ vcs' = [vcs EXCEPT !.describeFailed = TRUE]
            /\ UNCHANGED <<primaryDiffs, arrFileDiffs, entries, eI, fbDiffs,
                           fbOutcomes, newArrayDiffs, reviewLog, fsLog, outcome>>
            /\ UNCHANGED schedVars
       ELSE /\ AfterDescribe(<<BodyLine("blank")>>,
                             [vcs EXCEPT !.describeFailed = TRUE])
            /\ UNCHANGED runErr
  /\ UNCHANGED <<chunkVars, reviewVars, auxVars>>

\* buildDiffsViaDiff2FromSummary once the summary text is there
RunSummaryResolve ==
  /\ runpc = "awaitSummary"
  /\ \E txt \in SummaryTexts :
     /\ FallbackLoop(parseFilesAndRevsFromDescribeSummary(txt), 1, <<>>, <<>>)
     /\ UNCHANGED <<primaryDiffs, fsLog, runErr>>
     /\ UNCHANGED <<chunkVars, reviewVars, auxVars>>

\* `await this.perforce.getDescribeSummaryOutput(cl, shelved)` is under no try
RunSummaryReject ==
  /\ runpc = "awaitSummary"
  /\ runpc' = "rejected"
  /\ runErr' = RunError("summary", NoError)
  /\ UNCHANGED <<primaryDiffs, arrFileDiffs, entries, eI, fbDiffs, fbOutcomes,
                 newArrayDiffs, vcs, reviewLog, fsLog, outcome>>
  /\ UNCHANGED <<schedVars, chunkVars, reviewVars, auxVars>>

\* diffs.push({ strDepotFile: e.file, strDiff: body })
Unshift(diffs, fd) == <<fd>> \o diffs
Push(diffs, fd) == Append(diffs, fd)

\* getUnifiedDiffBetweenRevs resolved with the text out
RunDiff2Resolve ==
  /\ runpc = "awaitDiff2"
  /\ \E out \in Diff2Texts :
     /\ LET strBody == extractUnifiedBodyFromDiff2Output(out)
            ok == NonBlank(strBody)
        IN  FallbackLoop(entries, eI + 1,
                         Append(fbOutcomes, IF ok THEN "ok" ELSE "blank"),
                         IF ok THEN Push(fbDiffs,
                                         FileDiff(entries[eI].file, strBody))
                               ELSE fbDiffs)
     /\ UNCHANGED <<primaryDiffs, fsLog, runErr>>
     /\ UNCHANGED <<chunkVars, reviewVars, auxVars>>

\* getUnifiedDiffBetweenRevs rejected: the catch block ignores it
RunDiff2Reject ==
  /\ runpc = "awaitDiff2"
  /\ FallbackLoop(entries, AfterDiff2Failure(eI, Len(entries)),
                  Append(fbOutcomes, "failed"), fbDiffs)
  /\ UNCHANGED <<primaryDiffs, fsLog, runErr>>
  /\ UNCHANGED <<chunkVars, reviewVars, auxVars>>

\* `arrFileDiffs = await this.buildDiffsViaDiff2FromSummary(cl, shelved)`
\* resumes with the list returned; the locals of the fallback are gone
RunFallbackReturn ==
  /\ runpc = "fallbackDone"
  /\ Schedule(fbDiffs)
  /\ entries' = <<>>
  /\ eI' = 1
  /\ fbDiffs' = <<>>
  /\ fbOutcomes' = <<>>
  /\ UNCHANGED <<primaryDiffs, vcs, fsLog, runErr>>
  /\ UNCHANGED <<chunkVars, reviewVars, auxVars>>

RunFrame ==
  UNCHANGED <<runpc, primaryDiffs, arrFileDiffs, entries, eI, fbDiffs,
              fbOutcomes, newArrayDiffs, vcs, fsLog, outcome, runErr>>

\* the promise reviewSingleDiff(strInstructions, arrFileDiffs[idx]) returned
\* settles
RunHandlerSettle(idx) ==
  /\ runpc = "reviewing"
  /\ idx + 1 \in DOMAIN newArrayDiffs
  /\ \E out \in HandlerOutcomes(Destructure(newArrayDiffs[idx + 1])) :
       SchedSettle(idx, out)
  /\ RunFrame
  /\ UNCHANGED reviewLog
  /\ UNCHANGED <<chunkVars, reviewVars, auxVars>>

RunWorkerResume ==
  /\ runpc = "reviewing"
  /\ SchedResume
  /\ reviewLog' = reviewLog \o Invocations(calls, calls', newArrayDiffs)
  /\ RunFrame
  /\ UNCHANGED <<chunkVars, reviewVars, auxVars>>

RunFinish ==
  /\ runpc = "reviewing"
  /\ SchedFinish
  /\ RunFrame
  /\ UNCHANGED reviewLog
  /\ UNCHANGED <<chunkVars, reviewVars, auxVars>>

\* the result reviewSingleDiff gave for task idx
ResultOf(res) ==
  [strDepotFile |-> Destructure(newArrayDiffs[res[2] + 1]).strDepotFile]

RECURSIVE WritesFor(_)
WritesFor(rs) ==
  IF rs = <<>> THEN <<>>
  ELSE <<"write">> \o WritesFor(Tail(rs))

\* run after `await this.reviewDiffsConcurrently(...)`: the rejection goes
\* up, otherwise lines 242-250 up to the next await.  sanitizeFileName
\* calls strName.replace: a TypeError for a result without a depot path.
RunAfterReview ==
  /\ runpc = "reviewing"
  /\ phase \in {"returned", "thrown"}
  /\ IF phase = "thrown"
       THEN /\ runpc' = "rejected"
            /\ runErr' = RunError("task", thrown)
            /\ UNCHANGED <<fsLog, reviewLog, outcome>>
       ELSE LET rs == [k \in DOMAIN returned |-> ResultOf(returned[k])]
            IN  IF \E k \in DOMAIN rs : rs[k].strDepotFile.type # "string"
                  THEN /\ runpc' = "rejected"
                       /\ runErr' = RunError("write", NoError)
                       /\ UNCHANGED <<fsLog, reviewLog, outcome>>
                  ELSE /\ fsLog' = fsLog \o WritesFor(rs)
                       /\ \E summary \in BOOLEAN :
                            IF summary /\ Len(rs) > 0
                              THEN /\ runpc' = "awaitSummaryReview"
                                   /\ reviewLog' = Append(reviewLog,
                                        [method |-> "summarizeAcrossFiles",
                                         idx |-> -1,
                                         arg |-> Destructure(Undefined)])
                                   /\ UNCHANGED outcome
                              ELSE /\ runpc' = "returned"
                                   /\ outcome' = Outcome(
                                        [k \in DOMAIN rs |->
                                           rs[k].strDepotFile.str])
                                   /\ UNCHANGED reviewLog
                       /\ UNCHANGED runErr
  /\ UNCHANGED <<primaryDiffs, arrFileDiffs, entries, eI, fbDiffs, fbOutcomes,
                 newArrayDiffs, vcs>>
  /\ UNCHANGED <<schedVars, chunkVars, reviewVars, auxVars>>

RunNext ==
  \/ RunStart
  \/ RunDescribeResolve
  \/ RunDescribeReject
  \/ RunSummaryResolve
  \/ RunSummaryReject
  \/ RunDiff2Resolve
  \/ RunDiff2Reject
  \/ RunFallbackReturn
  \/ \E idx \in 0..(MaxItems - 1) : RunHandlerSettle(idx)
  \/ RunWorkerResume
  \/ RunFinish
  \/ RunAfterReview

RunSpec == RunInit /\ [][RunNext]_vars

ReviewerInvocations ==
  {k \in DOMAIN reviewLog : reviewLog[k].method = "reviewDiffForFile"}
SummaryInvocations ==
  {k \in DOMAIN reviewLog : reviewLog[k].method = "summarizeAcrossFiles"}
RunSettled == runpc \in {"returned", "rejected"}
PastExtraction ==
  runpc \notin {"idle", "awaitDescribe"} /\ ~vcs.describeFailed
PastWorklist ==
  /\ runpc \in {"reviewing", "awaitSummaryReview", "returned", "rejected"}
  /\ runErr.kind \notin {"describe", "summary"}

\* C12 as stated: run gives the scheduler one task per FileDiff, and each
\* task calls reviewer.reviewDiffForFile with that FileDiff's depot path and
\* diff text.
C12_OneTaskPerFileDiff ==
  (runpc = "reviewing") =>
     /\ nItems = Len(arrFileDiffs)
     /\ \A k \in ReviewerInvocations :
          LET i == reviewLog[k].idx + 1
          IN  /\ i \in DOMAIN arrFileDiffs
              /\ reviewLog[k].arg.strDepotFile = Str(arrFileDiffs[i].strDepotFile)
              /\ reviewLog[k].arg.strDiff = Str(arrFileDiffs[i].strDiff)

\* a task failed in a reviewer call (not before one was made)
ReviewCallFailed ==
  \E i \in Failed : ~ReviewThrowsTypeError(Destructure(newArrayDiffs[i + 1]))

\* C13 as stated: when no review call fails, run returns an outcome whose
\* file count is the number of FileDiffs scheduled and whose list holds
\* their depot paths.
C13_OutcomeListsReviewed ==
  (RunSettled /\ runErr.kind \notin {"describe", "summary"} /\ ~ReviewCallFailed)
    => /\ runpc = "returned"
       /\ outcome = Outcome(PathsOf(arrFileDiffs))

\* C15: when a review task failed, run rejects with the error the scheduler
\* raised, once every task has settled and every worker has ended; it has
\* written no per-file result, asked for no cross-file summary and returns
\* no outcome.
C15_TaskFailureRejectsRun ==
  (runpc # "reviewing" /\ Failed # {}) =>
     /\ runpc = "rejected"
     /\ phase = "thrown"
     /\ runErr = RunError("task", thrown)
     /\ \E k \in DOMAIN errors : errors[k].err = thrown
     /\ Pending = {} /\ jobs = <<>> /\ AllWorkersDone
     /\ \A k \in DOMAIN fsLog : fsLog[k] # "write"
     /\ SummaryInvocations = {}
     /\ outcome = NoValue

C15_Witness ==
  /\ runpc = "rejected"
  /\ runErr.kind = "task"
  /\ Failed # {}
  /\ arrFileDiffs # <<>>

\* C16: the fallback (describe summary, then diff2) is taken exactly when
\* the primary extraction from the describe text gave no FileDiff; when it
\* gave at least one, no summary and no diff2 request is ever made.
C16_FallbackIffNoPrimary ==
  /\ vcs.summary <= 1
  /\ (vcs.summary = 1 \/ vcs.diff2 > 0) => (PastExtraction /\ primaryDiffs = <<>>)
  /\ (PastExtraction /\ primaryDiffs = <<>>) => vcs.summary = 1
  /\ primaryDiffs # <<>> => (vcs.summary = 0 /\ vcs.diff2 = 0)
  /\ vcs.diff2 > 0 => vcs.summary = 1

C16_Witness ==
  /\ runpc = "awaitDiff2"
  /\ primaryDiffs = <<>>
  /\ vcs.describe = 1 /\ vcs.summary = 1 /\ vcs.diff2 = 1

IsSkipped(e) == e.rev <= 0 \/ (e.action = "add" /\ e.rev <= 1)
Fetched == {k \in DOMAIN fbOutcomes : fbOutcomes[k] # "skipped"}

\* C17: in the fallback an entry at revision r > 0 is fetched with diff2
\* between max(r - 1, 1) and r; an entry whose action is add at revision
\* <= 1, or whose revision is <= 0, is skipped without a request.
C17_RevisionResolution ==
  /\ runpc = "awaitDiff2" =>
       LET e == entries[eI]
       IN  /\ ~IsSkipped(e)
           /\ vcs.last = [op |-> "diff2", file |-> e.file,
                          from |-> (IF e.rev - 1 > 1 THEN e.rev - 1 ELSE 1),
                          to |-> e.rev]
           /\ vcs.diff2 = Cardinality(Fetched) + 1
           /\ Len(fbOutcomes) = eI - 1
  /\ runpc = "fallbackDone" => vcs.diff2 = Cardinality(Fetched)
  /\ \A k \in DOMAIN fbOutcomes :
       /\ k \in DOMAIN entries
       /\ fbOutcomes[k] = "skipped" <=> IsSkipped(entries[k])

C17_Witness ==
  /\ runpc = "awaitDiff2"
  /\ eI = 2
  /\ fbOutcomes = <<"skipped">>
  /\ entries[1].action = "add" /\ entries[1].rev = 1
  /\ entries[2].rev = 1
  /\ vcs.last.from = 1 /\ vcs.last.to = 1

RECURSIVE FetchedOk(_, _)
FetchedOk(es, outs) ==
  IF outs = <<>> THEN <<>>
  ELSE (IF Head(outs) = "ok" THEN <<Head(es).file>> ELSE <<>>)
         \o FetchedOk(Tail(es), Tail(outs))

\* C18: a diff2 request that fails drops only that file: the entries after
\* it are still processed, the worklist holds exactly the entries whose
\* fetch gave a non-blank body, in order, and run does not fail for it.
C18_FailedFetchDropsOnlyThatFile ==
  /\ runErr.kind \in {"none", "describe", "summary", "task", "write"}
  /\ runpc \in {"awaitDiff2", "fallbackDone"} =>
       /\ Len(fbOutcomes) = eI - 1
       /\ PathsOf(fbDiffs) = FetchedOk(entries, fbOutcomes)
       /\ \A k \in DOMAIN fbDiffs : NonBlank(fbDiffs[k].strDiff)
       /\ runErr = NoValue
  /\ runpc = "fallbackDone" =>
       /\ Len(fbOutcomes) = Len(entries)
       /\ vcs.diff2 = Cardinality({k \in DOMAIN entries : ~IsSkipped(entries[k])})

C18_Witness ==
  /\ runpc = "fallbackDone"
  /\ fbOutcomes = <<"failed", "ok">>
  /\ PathsOf(fbDiffs) = <<entries[2].file>>

\* C19: when the primary extraction and the fallback both give no FileDiff,
\* run returns an outcome with zero files and an empty list, without any
\* reviewer call and without an error.
C19_ZeroFilesOutcome ==
  (PastWorklist /\ arrFileDiffs = <<>>) =>
     /\ runpc = "returned"
     /\ outcome = [kind |-> "outcome", arrFilesReviewed |-> <<>>, nFiles |-> 0]
     /\ runErr = NoValue
     /\ reviewLog = <<>>
     /\ phase = "idle"
     /\ \A k \in DOMAIN fsLog : fsLog[k] # "write"

C19_Witness ==
  /\ runpc = "returned"
  /\ outcome.kind = "outcome" /\ outcome.nFiles = 0
  /\ primaryDiffs = <<>>
  /\ vcs.summary = 1 /\ vcs.diff2 = 1

\* C20: when the describe request fails, run rejects with that failure:
\* no fallback request, no file-system effect, no reviewer call.
C20_DescribeFailureAborts ==
  vcs.describeFailed =>
     /\ runpc = "rejected"
     /\ runErr = RunError("describe", NoError)
     /\ vcs.describe = 1 /\ vcs.summary = 0 /\ vcs.diff2 = 0
     /\ fsLog = <<>>
     /\ reviewLog = <<>>
     /\ phase = "idle"
     /\ outcome = NoValue
     /\ primaryDiffs = <<>> /\ arrFileDiffs = <<>> /\ entries = <<>>

C20_Witness ==
  /\ vcs.describeFailed
  /\ runpc = "rejected"
  /\ runErr.kind = "describe"

\* ============================================ the parsing operations alone
\* parseDepotFilesFromDescribe, extractUnifiedDiffForFile, getDiffsForFiles
\* and parseFilesAndRevsFromDescribeSummary are pure: each is called once on
\* arguments drawn from the bounded texts.
DescribeArgs ==
  {[op |-> "describe", text |-> t, path |-> q] :
     t \in DescribeTexts, q \in Paths}
SummaryArgs ==
  {[op |-> "summary", text |-> t, path |-> NoPath] :
     t \in SummaryTexts}

Returned(fn, files, diff, diffs, es) ==
  [fn |-> fn, files |-> files, diff |-> diff, diffs |-> diffs, entries |-> es]

ParseInit ==
  /\ SchedIdle /\ ChunkIdle /\ ReviewIdle /\ RunIdle
  /\ PoolIdle /\ CliIdle /\ ExtIdle /\ LateIdle
  /\ ppc = "ready"
  /\ pIn \in DescribeArgs \cup SummaryArgs
  /\ pOut = NoValue

ParseFrame ==
  /\ ppc' = "done"
  /\ UNCHANGED pIn
  /\ UNCHANGED <<schedVars, chunkVars, reviewVars, runVars>>
  /\ UNCHANGED <<poolVars, cliVars, extVars, lateVars>>

ParseFilesCall ==
  /\ ppc = "ready" /\ pIn.op = "describe"
  /\ pOut' = Returned("parseDepotFilesFromDescribe",
                      parseDepotFilesFromDescribe(pIn.text), <<>>, <<>>, <<>>)
  /\ ParseFrame

ExtractCall ==
  /\ ppc = "ready" /\ pIn.op = "describe"
  /\ pOut' = Returned("extractUnifiedDiffForFile", <<>>,
                      extractUnifiedDiffForFile(pIn.text, pIn.path), <<>>, <<>>)
  /\ ParseFrame

\* run, lines 211 and 220: the files listed from the text, then their diffs
GetDiffsCall ==
  /\ ppc = "ready" /\ pIn.op = "describe"
  /\ pOut' = Returned("getDiffsForFiles", <<>>, <<>>,
                      getDiffsForFiles(pIn.text,
                                       parseDepotFilesFromDescribe(pIn.text)),
                      <<>>)
  /\ ParseFrame

ParseSummaryCall ==
  /\ ppc = "ready" /\ pIn.op = "summary"
  /\ pOut' = Returned("parseFilesAndRevsFromDescribeSummary", <<>>, <<>>, <<>>,
                      parseFilesAndRevsFromDescribeSummary(pIn.text))
  /\ ParseFrame

ParseNext ==
  \/ ParseFilesCall
  \/ ExtractCall
  \/ GetDiffsCall
  \/ ParseSummaryCall

ParseSpec == ParseInit /\ [][ParseNext]_vars

Called(fn) == ppc = "done" /\ pOut # NoValue /\ pOut.fn = fn

\* the lines of the text that are per-file headers naming depot path q
HeadersOf(ls, q) ==
  {k \in DOMAIN ls : ls[k].kind = "header" /\ ls[k].path = q}
NamedPaths(ls) ==
  {ls[k].path : k \in {j \in DOMAIN ls : ls[j].kind = "header"
                                           /\ ls[j].path # <<>>}}
FirstLineOf(ls, q) == MinOf(HeadersOf(ls, q))

\* C21: parseDepotFilesFromDescribe returns every depot path named by a
\* per-file header exactly once, ordered by the first header of each path.
C21_DedupFirstSeen ==
  Called("parseDepotFilesFromDescribe") =>
     LET ls == pIn.text
         files == pOut.files
     IN  /\ \A i, j \in DOMAIN files : i # j => files[i] # files[j]
         /\ {files[i] : i \in DOMAIN files} = NamedPaths(ls)
         /\ \A i, j \in DOMAIN files :
              i < j => FirstLineOf(ls, files[i]) < FirstLineOf(ls, files[j])

C21_Witness ==
  /\ Called("parseDepotFilesFromDescribe")
  /\ Len(pIn.text) = 4
  /\ \A k \in 1..4 : pIn.text[k].kind = "header" /\ pIn.text[k].path # <<>>
  /\ pIn.text[1].path = pIn.text[3].path
  /\ Cardinality({pIn.text[k].path : k \in 1..4}) = 3
  /\ pOut.files = <<pIn.text[1].path, pIn.text[2].path, pIn.text[4].path>>

RevLinesOf(ls, f) ==
  {k \in DOMAIN ls : ls[k].kind = "rev" /\ ls[k].file = f}

\* C22 as stated: parseFilesAndRevsFromDescribeSummary returns at most one
\* entry per depot path, taken from the first revision line of that path,
\* in first-seen order.
C22_OneEntryPerPath ==
  Called("parseFilesAndRevsFromDescribeSummary") =>
     LET ls == pIn.text
         es == pOut.entries
     IN  /\ \A i, j \in DOMAIN es : i # j => es[i].file # es[j].file
         /\ {es[i].file : i \in DOMAIN es}
              = {ls[k].file : k \in {j \in DOMAIN ls : ls[j].kind = "rev"}}
         /\ \A i \in DOMAIN es :
              LET k == MinOf(RevLinesOf(ls, es[i].file))
              IN  es[i].rev = ls[k].rev /\ es[i].action = ls[k].action
         /\ \A i, j \in DOMAIN es :
              i < j => MinOf(RevLinesOf(ls, es[i].file))
                         < MinOf(RevLinesOf(ls, es[j].file))

\* the section of depot path q: the lines strictly between the first header
\* naming q and the next header line, or the end of the text
AnyHeaders(ls) == {k \in DOMAIN ls : ls[k].kind = "header"}
SectionEnd(ls, h) ==
  LET later == {k \in AnyHeaders(ls) : k > h}
  IN  IF later = {} THEN Len(ls) ELSE MinOf(later) - 1
SectionOf(ls, q) ==
  LET h == FirstLineOf(ls, q) IN SubSeq(ls, h + 1, SectionEnd(ls, h))
BinarySection(ls, q) ==
  \E k \in DOMAIN SectionOf(ls, q) :
     SectionOf(ls, q)[k].kind \in {"binary", "binmark"}

\* the text of the lines joined by newlines, written out line by line
RECURSIVE Newlined(_)
Newlined(ls) ==
  IF Len(ls) = 0 THEN <<>>
  ELSE IF Len(ls) = 1 THEN LineText(ls[1])
  ELSE Newlined(SubSeq(ls, 1, Len(ls) - 1)) \o <<"\n">> \o LineText(ls[Len(ls)])

\* C23 as stated: for a non-binary section, extractUnifiedDiffForFile gives
\* exactly the lines between the header of the requested path and the next
\* header (or the end of the text), joined by newlines.
C23_SectionBetweenHeaders ==
  (/\ Called("extractUnifiedDiffForFile")
   /\ HeadersOf(pIn.text, pIn.path) # {}
   /\ ~BinarySection(pIn.text, pIn.path))
    => pOut.diff = Newlined(SectionOf(pIn.text, pIn.path))

\* C24 as stated: when the section of a file holds a binary marker,
\* extractUnifiedDiffForFile returns the empty string for that file and
\* getDiffsForFiles produces no FileDiff for it.
C24_BinaryExcluded ==
  /\ (/\ Called("extractUnifiedDiffForFile")
      /\ HeadersOf(pIn.text, pIn.path) # {}
      /\ BinarySection(pIn.text, pIn.path))
       => pOut.diff = <<>>
  /\ Called("getDiffsForFiles") =>
       \A i \in DOMAIN pOut.diffs :
          ~BinarySection(pIn.text, pOut.diffs[i].strDepotFile)

\* C30 as stated: for every path P that parseDepotFilesFromDescribe returns,
\* extractUnifiedDiffForFile(text, P) is the body of the section whose header
\* names P (empty when that section is binary), and every FileDiff of
\* getDiffsForFiles pairs a path with the body of its own section.
C30_OwnSection ==
  /\ (/\ Called("extractUnifiedDiffForFile")
      /\ pIn.path \in NamedPaths(pIn.text))
       => pOut.diff = (IF BinarySection(pIn.text, pIn.path) THEN <<>>
                       ELSE Newlined(SectionOf(pIn.text, pIn.path)))
  /\ Called("getDiffsForFiles") =>
       \A i \in DOMAIN pOut.diffs :
          pOut.diffs[i].strDiff
            = Newlined(SectionOf(pIn.text, pOut.diffs[i].strDepotFile))

HasInk(str) == \E k \in DOMAIN str : str[k] \notin {"\n", " ", "\t", "\r"}
AllInked(diffs) == \A k \in DOMAIN diffs : HasInk(diffs[k].strDiff)

\* C25: every FileDiff that primary extraction or the fallback produces has
\* a diff text that is not blank, and so has the worklist that is scheduled.
C25_NoBlankFileDiff ==
  /\ AllInked(primaryDiffs)
  /\ AllInked(fbDiffs)
  /\ AllInked(arrFileDiffs)
  /\ runpc = "reviewing" =>
       /\ arrFileDiffs # <<>>
       /\ \A k \in DOMAIN newArrayDiffs : HasInk(newArrayDiffs[k].str)

C25_Witness ==
  /\ runpc = "fallbackDone"
  /\ fbOutcomes = <<"blank", "ok">>
  /\ Len(fbDiffs) = 1
  /\ fbDiffs[1].strDepotFile = entries[2].file

\* C26 as stated: every parsing operation returns for every text; a text
\* without a well-formed header gives no file, a text without a revision
\* line gives no entry, and extractUnifiedDiffForFile gives the empty string
\* for a path that no header names.
C26_AbsenceGivesEmpty ==
  /\ ppc = "done" => pOut # NoValue
  /\ (Called("parseDepotFilesFromDescribe") /\ NamedPaths(pIn.text) = {})
       => pOut.files = <<>>
  /\ (/\ Called("parseFilesAndRevsFromDescribeSummary")
      /\ \A k \in DOMAIN pIn.text : pIn.text[k].kind # "rev")
       => pOut.entries = <<>>
  /\ (Called("extractUnifiedDiffForFile") /\ HeadersOf(pIn.text, pIn.path) = {})
       => pOut.diff = <<>>

\* ================================================= main() of the CLI tool
CliOptions == [dryRun : BOOLEAN, hasKey : BOOLEAN, clValid : BOOLEAN]

\* new OpenAI({ apiKey, baseURL }) in the AIReviewer constructor belongs to
\* the client library: without a key it may refuse to construct
ClientConstructs(opts) == IF opts.hasKey THEN {TRUE} ELSE {TRUE, FALSE}

\* if (opts.dryRun)
NeverDryRun(opts) == FALSE
TakesDryRun(opts) == opts.dryRun

\* strDiff.split(/\r?\n/).slice(0, n).join('\n')
RECURSIVE TakeLines(_, _)
TakeLines(str, n) ==
  IF n = 0 \/ str = <<>> THEN <<>>
  ELSE IF Head(str) = "\n"
         THEN (IF n = 1 THEN <<>> ELSE <<"\n">> \o TakeLines(Tail(str), n - 1))
         ELSE <<Head(str)>> \o TakeLines(Tail(str), n)

\* the loop of lines 58-65: one block per listed file
RECURSIVE Listing(_, _)
Listing(ls, files) ==
  IF files = <<>> THEN <<>>
  ELSE <<[file |-> Head(files),
          preview |-> TakeLines(extractUnifiedDiffForFile(ls, Head(files)),
                                PreviewMax)]>>
         \o Listing(ls, Tail(files))

Exit(code) == [kind |-> "exit", code |-> code, listing |-> <<>>]
Listed(l) == [kind |-> "listed", code |-> 0, listing |-> l]

CliInit ==
  /\ SchedIdle /\ ChunkIdle /\ ReviewIdle /\ RunIdle
  /\ ParseIdle /\ PoolIdle /\ ExtIdle /\ LateIdle
  /\ clipc = "start"
  /\ cliOpts \in CliOptions
  /\ cliOut = NoValue

CliRunFrame ==
  UNCHANGED <<runpc, primaryDiffs, arrFileDiffs, entries, eI, fbDiffs,
              fbOutcomes, newArrayDiffs, reviewLog, fsLog, outcome, runErr>>

\* main() up to its first await, or to process.exit
CliStart ==
  /\ clipc = "start"
  /\ UNCHANGED <<cliOpts, parseVars, poolVars, extVars, lateVars>>
  /\ IF ~cliOpts.clValid
       THEN /\ clipc' = "exited" /\ cliOut' = Exit(1)
            /\ CliRunFrame /\ UNCHANGED vcs
            /\ UNCHANGED <<schedVars, chunkVars, reviewVars>>
     ELSE IF ~cliOpts.dryRun /\ ~cliOpts.hasKey
       THEN /\ clipc' = "exited" /\ cliOut' = Exit(3)
            /\ CliRunFrame /\ UNCHANGED vcs
            /\ UNCHANGED <<schedVars, chunkVars, reviewVars>>
     ELSE \E built \in ClientConstructs(cliOpts) :
            IF ~built
              THEN /\ clipc' = "exited" /\ cliOut' = Exit(1)
                   /\ CliRunFrame /\ UNCHANGED vcs
                   /\ UNCHANGED <<schedVars, chunkVars, reviewVars>>
            ELSE IF TakesDryRun(cliOpts)
              THEN /\ clipc' = "awaitDescribe"
                   /\ vcs' = Requested(vcs, [op |-> "describe", file |-> NoPath,
                                             from |-> 0, to |-> 0])
                   /\ CliRunFrame
                   /\ UNCHANGED cliOut
                   /\ UNCHANGED <<schedVars, chunkVars, reviewVars>>
              ELSE /\ clipc' = "running"
                   /\ RunBegin
                   /\ UNCHANGED cliOut

\* dry run: perforce.getDescribeOutput resolved; lines 56-68
CliDescribeResolve ==
  /\ clipc = "awaitDescribe"
  /\ \E txt \in DescribeTexts :
     /\ cliOut' = Listed(Listing(txt, parseDepotFilesFromDescribe(txt)))
     /\ clipc' = "done"
     /\ UNCHANGED <<cliOpts, parseVars, poolVars, extVars, lateVars>>
     /\ UNCHANGED <<schedVars, chunkVars, reviewVars, runVars>>

\* dry run: the describe fetch rejected; main().catch exits with 1
CliDescribeReject ==
  /\ clipc = "awaitDescribe"
  /\ cliOut' = Exit(1)
  /\ clipc' = "exited"
  /\ UNCHANGED <<cliOpts, parseVars, poolVars, extVars, lateVars>>
  /\ UNCHANGED <<schedVars, chunkVars, reviewVars, runVars>>

\* `await runner.run({...})` settled: line 80, or main().catch
CliRunSettled ==
  /\ clipc = "running"
  /\ runpc \in {"returned", "rejected"}
  /\ IF runpc = "returned"
       THEN clipc' = "done" /\ cliOut' = Exit(0)
       ELSE clipc' = "exited" /\ cliOut' = Exit(1)
  /\ UNCHANGED <<cliOpts, parseVars, poolVars, extVars, lateVars>>
  /\ UNCHANGED <<schedVars, chunkVars, reviewVars, runVars>>

CliNext ==
  \/ CliStart
  \/ CliDescribeResolve
  \/ CliDescribeReject
  \/ CliRunSettled
  \/ RunDescribeResolve
  \/ RunDescribeReject
  \/ RunSummaryResolve
  \/ RunSummaryReject
  \/ RunDiff2Resolve
  \/ RunDiff2Reject
  \/ RunFallbackReturn
  \/ \E idx \in 0..(MaxItems - 1) : RunHandlerSettle(idx)
  \/ RunWorkerResume
  \/ RunFinish
  \/ RunAfterReview

CliSpec == CliInit /\ [][CliNext]_vars

\* C27: in dry-run mode run is never invoked, so no reviewer call is made
\* and no scheduler runs; main fetches the describe text once, lists the
\* files of the text with a preview of each diff, and ends.
C27_DryRunNoReviewer ==
  (cliOpts # NoValue /\ cliOpts.dryRun) =>
     /\ runpc = "idle" /\ clipc # "running"
     /\ reviewLog = <<>>
     /\ phase = "idle" /\ calls = <<>>
     /\ runErr = NoValue /\ outcome = NoValue
     /\ vcs.summary = 0 /\ vcs.diff2 = 0 /\ vcs.describe <= 1
     /\ clipc = "done" =>
          /\ vcs.describe = 1
          /\ cliOut.kind = "listed"
          /\ \A i, j \in DOMAIN cliOut.listing :
               i # j => cliOut.listing[i].file # cliOut.listing[j].file
          /\ \A i \in DOMAIN cliOut.listing :
               Cardinality({k \in DOMAIN cliOut.listing[i].preview :
                              cliOut.listing[i].preview[k] = "\n"}) < PreviewMax

C27_Witness ==
  /\ cliOpts # NoValue /\ cliOpts.dryRun /\ ~cliOpts.hasKey
  /\ clipc = "done"
  /\ Len(cliOut.listing) = 2
  /\ cliOut.listing[1].preview # <<>>

\* ========================================= the extension's diff handlers
\* diffSelectedFileHandler and ShelvedFilesController.diffSelected open the
\* diff of one file; diffAllFilesHandler opens all files of a changelist.
SingleHandlers == {"diffSelectedFileHandler", "diffSelected"}

Ui(kind, file, from, to, changes) ==
  [kind |-> kind, file |-> file, from |-> from, to |-> to, changes |-> changes]
Message(kind) == Ui(kind, NoPath, 0, 0, <<>>)

\* summary.match(revisionRegex) with the 'm' flag: the first line
\* "... <depotFilePath>#<rev> <action>" of the text, 0 when there is none
RECURSIVE RevisionMatch(_, _, _)
RevisionMatch(ls, k, f) ==
  IF k > Len(ls) THEN 0
  ELSE IF ls[k].kind = "rev" /\ ls[k].file = f THEN k
  ELSE RevisionMatch(ls, k + 1, f)

\* revision > 1 ? (revision - 1) : 0
FromRevision(revision) == IF revision > 1 THEN revision - 1 ELSE 0

\* if (!revisionMatch) { continue; }
StopAtMissingRevision(i, n) == n + 1
AfterMissingRevision(i, n) == i + 1

RECURSIVE ChangesFrom(_, _, _, _)
ChangesFrom(files, i, ls, changes) ==
  IF i > Len(files) THEN changes
  ELSE LET m == RevisionMatch(ls, 1, files[i])
       IN  IF m = 0
             THEN ChangesFrom(files, AfterMissingRevision(i, Len(files)), ls,
                              changes)
             ELSE ChangesFrom(files, i + 1, ls,
                    Append(changes,
                           [file |-> files[i],
                            original |-> FromRevision(ls[m].rev),
                            modified |-> ls[m].rev]))

buildChangesFromSummary(files, ls) == ChangesFrom(files, 1, ls, <<>>)

Invoked(handler, path, cl, files) ==
  [handler |-> handler, path |-> path, cl |-> cl, files |-> files,
   summary |-> <<>>]

ExtInit ==
  /\ SchedIdle /\ ChunkIdle /\ ReviewIdle /\ RunIdle
  /\ ParseIdle /\ PoolIdle /\ CliIdle /\ LateIdle
  /\ ExtIdle

ExtFrame ==
  /\ UNCHANGED <<schedVars, chunkVars, reviewVars, runVars>>
  /\ UNCHANGED <<parseVars, poolVars, cliVars, lateVars>>

\* a single-file handler up to `await ...getDescribeSummaryOutput(cl, true)`
ExtDiffSelectedCall ==
  /\ xpc = "idle"
  /\ \E h \in SingleHandlers, q \in SummaryPaths \cup {NoPath}, cl \in BOOLEAN :
       /\ xIn' = Invoked(h, q, cl, <<>>)
       /\ IF q = NoPath
            THEN xpc' = "done" /\ xUi' = <<Message("info")>>
          ELSE IF ~cl
            THEN xpc' = "done" /\ xUi' = <<Message("error")>>
          ELSE xpc' = "awaitSummary" /\ xUi' = <<>>
  /\ ExtFrame

\* diffAllFilesHandler up to `await ...getFilesForChangelist(...)`
ExtDiffAllCall ==
  /\ xpc = "idle"
  /\ \E cl \in BOOLEAN :
       /\ xIn' = Invoked("diffAllFilesHandler", NoPath, cl, <<>>)
       /\ xpc' = IF cl THEN "awaitFiles" ELSE "done"
  /\ xUi' = <<>>
  /\ ExtFrame

ExtFilesResolve ==
  /\ xpc = "awaitFiles"
  /\ \E files \in SeqsUpTo(SummaryPaths, MaxFiles) :
       /\ xIn' = [xIn EXCEPT !.files = files]
       /\ IF files = <<>>
            THEN xpc' = "done" /\ xUi' = <<Message("info")>>
            ELSE xpc' = "awaitSummary" /\ UNCHANGED xUi
  /\ ExtFrame

\* diffAllFilesHandler has no try: a rejection leaves the handler
ExtFilesReject ==
  /\ xpc = "awaitFiles"
  /\ xpc' = "raised"
  /\ UNCHANGED <<xIn, xUi>>
  /\ ExtFrame

\* the summary text is there: up to the await of the editor command
ExtSummaryResolve ==
  /\ xpc = "awaitSummary"
  /\ \E txt \in SummaryTexts :
       /\ xIn' = [xIn EXCEPT !.summary = txt]
       /\ IF xIn.handler \in SingleHandlers
            THEN LET m == RevisionMatch(txt, 1, xIn.path)
                 IN  IF m = 0
                       THEN /\ xUi' = Append(xUi, Message("error"))
                            /\ xpc' = "done"
                       ELSE /\ xUi' = Append(xUi,
                                 Ui("diff", xIn.path,
                                    FromRevision(txt[m].rev), txt[m].rev, <<>>))
                            /\ xpc' = "awaitCommand"
            ELSE LET changes == buildChangesFromSummary(xIn.files, txt)
                 IN  IF changes = <<>>
                       THEN /\ xUi' = Append(xUi, Message("info"))
                            /\ xpc' = "done"
                       ELSE /\ xUi' = Append(xUi,
                                 Ui("changes", NoPath, 0, 0, changes))
                            /\ xpc' = "awaitCommand"
  /\ ExtFrame

\* a rejection inside the try of a single-file handler is shown as a
\* message; diffAllFilesHandler lets it out
ExtRejected ==
  /\ IF xIn.handler \in SingleHandlers
       THEN xpc' = "done" /\ xUi' = Append(xUi, Message("error"))
       ELSE xpc' = "raised" /\ UNCHANGED xUi
  /\ UNCHANGED xIn
  /\ ExtFrame

ExtSummaryReject == xpc = "awaitSummary" /\ ExtRejected

\* vscode.commands.executeCommand resolved
ExtCommandResolve ==
  /\ xpc = "awaitCommand"
  /\ IF xIn.handler = "diffSelected"
       THEN /\ xUi' = Append(xUi, Ui("markAsViewed", xIn.path, 0, 0, <<>>))
            /\ xpc' = "awaitMark"
       ELSE /\ xpc' = "done"
            /\ UNCHANGED xUi
  /\ UNCHANGED xIn
  /\ ExtFrame

ExtCommandReject == xpc = "awaitCommand" /\ ExtRejected

\* ShelvedFilesController.diffSelected, lines 186-189
ExtMarkResolve ==
  /\ xpc = "awaitMark"
  /\ xUi' = Append(xUi, Message("refresh"))
  /\ xpc' = "done"
  /\ UNCHANGED xIn
  /\ ExtFrame

ExtMarkReject == xpc = "awaitMark" /\ ExtRejected

ExtNext ==
  \/ ExtDiffSelectedCall
  \/ ExtDiffAllCall
  \/ ExtFilesResolve
  \/ ExtFilesReject
  \/ ExtSummaryResolve
  \/ ExtSummaryReject
  \/ ExtCommandResolve
  \/ ExtCommandReject
  \/ ExtMarkResolve
  \/ ExtMarkReject

ExtSpec == ExtInit /\ [][ExtNext]_vars

SummaryRead == xIn # NoValue /\ xIn.summary # <<>>
Shown(kind) == {k \in DOMAIN xUi : xUi[k].kind = kind}
WithRevision(ls, files) ==
  SelectSeq(files, LAMBDA f : RevLinesOf(ls, f) # {})

\* C28: when the summary has no revision line for the selected file, the
\* single-file handler opens no diff and ends without raising; the
\* multi-file diff leaves that file out and still resolves the other files.
C28_MissingRevisionIsNoDiff ==
  /\ (xIn # NoValue /\ xIn.handler \in SingleHandlers) => xpc # "raised"
  /\ (/\ SummaryRead
      /\ xIn.handler \in SingleHandlers
      /\ RevLinesOf(xIn.summary, xIn.path) = {})
       => /\ xpc = "done"
          /\ Shown("diff") = {}
          /\ xUi = <<Message("error")>>
  /\ (SummaryRead /\ xIn.handler = "diffAllFilesHandler") =>
       LET kept == WithRevision(xIn.summary, xIn.files)
       IN  IF kept = <<>>
             THEN xpc = "done" /\ Shown("changes") = {}
             ELSE /\ Cardinality(Shown("changes")) = 1
                  /\ \A k \in Shown("changes") :
                       /\ Len(xUi[k].changes) = Len(kept)
                       /\ \A i \in DOMAIN kept :
                            LET c == xUi[k].changes[i]
                                r == xIn.summary[MinOf(RevLinesOf(xIn.summary,
                                                                  kept[i]))].rev
                            IN  /\ c.file = kept[i]
                                /\ c.modified = r

C28_Witness ==
  /\ SummaryRead
  /\ xIn.handler = "diffAllFilesHandler"
  /\ Len(xIn.files) = 2
  /\ RevLinesOf(xIn.summary, xIn.files[1]) = {}
  /\ RevLinesOf(xIn.summary, xIn.files[2]) # {}
  /\ \E k \in Shown("changes") :
       /\ Len(xUi[k].changes) = 1
       /\ xUi[k].changes[1].file = xIn.files[2]

\* ======================= reviewDiffsConcurrently over reviewDiffForFile
\* handler(idx) is reviewSingleDiff(strInstructions, arrFileDiffs[idx]),
\* which awaits reviewer.reviewDiffForFile.  A FileDiff counts by the
\* number of chunks chunkString cuts its strDiff into.
ChunkCounts ==
  UNION {[0..(n - 1) -> 1..MaxPoolChunks] : n \in 0..MaxItems}

\* the reviewWithOpenAI calls of one review: a call per chunk, and a merge
\* call when there is more than one partial
TotalCalls(nChunks) == IF nChunks = 1 THEN 1 ELSE nChunks + 1

\* `const strPart = await this.reviewWithOpenAI(strPartPrompt)` inside the
\* loop: one part call is started, the next only after it has settled
AllParts(nChunks) == nChunks
FirstBatch(nChunks) == 1

NotBegun == [started |-> 0, inflight |-> 0]
BeginReview(nChunks) ==
  [started |-> FirstBatch(nChunks), inflight |-> FirstBatch(nChunks)]

\* the handlers invoked while the scheduler went from counts c0 to c1 start
\* their review
Begun(pc, c0, c1) ==
  [i \in DOMAIN c1 |->
     IF c1[i] > (IF i \in DOMAIN c0 THEN c0[i] ELSE 0)
       THEN BeginReview(poolChunks'[i])
       ELSE pc[i]]

PoolInit ==
  /\ SchedIdle /\ ChunkIdle /\ ReviewIdle /\ RunIdle
  /\ ParseIdle /\ CliIdle /\ ExtIdle /\ LateIdle
  /\ PoolIdle

PoolFrame ==
  /\ UNCHANGED <<chunkVars, reviewVars, runVars>>
  /\ UNCHANGED <<parseVars, cliVars, extVars, lateVars>>

\* reviewDiffsConcurrently(strInstructions, arrFileDiffs, concurrency)
PoolCall ==
  /\ phase = "idle"
  /\ \E ch \in ChunkCounts, c \in 0..MaxPoolConc :
       /\ poolChunks' = ch
       /\ SchedCall(Cardinality(DOMAIN ch), TRUE, c)
       /\ poolCalls' = Begun([i \in DOMAIN ch |-> NotBegun], <<>>, calls')
  /\ PoolFrame

\* a reviewWithOpenAI call of task idx resolved: the next call of that
\* review starts, or reviewDiffForFile returns and the handler resolves
PoolCallResolve(idx) ==
  /\ phase = "running"
  /\ idx \in DOMAIN poolCalls
  /\ poolCalls[idx].inflight > 0
  /\ hstate[idx] = "pending"
  /\ LET pc == poolCalls[idx]
         left == pc.inflight - 1
     IN  IF left > 0
           THEN /\ poolCalls' = [poolCalls EXCEPT ![idx].inflight = left]
                /\ UNCHANGED schedVars
         ELSE IF pc.started < TotalCalls(poolChunks[idx])
           THEN /\ poolCalls' = [poolCalls EXCEPT ![idx].started = @ + 1,
                                                  ![idx].inflight = 1]
                /\ UNCHANGED schedVars
           ELSE /\ poolCalls' = [poolCalls EXCEPT ![idx].inflight = 0]
                /\ SchedSettle(idx, "value")
  /\ UNCHANGED poolChunks
  /\ PoolFrame

\* a reviewWithOpenAI call of task idx rejected: the await throws,
\* reviewDiffForFile rejects and so does the handler
PoolCallReject(idx) ==
  /\ phase = "running"
  /\ idx \in DOMAIN poolCalls
  /\ poolCalls[idx].inflight > 0
  /\ hstate[idx] = "pending"
  /\ poolCalls' = [poolCalls EXCEPT ![idx].inflight = @ - 1]
  /\ SchedSettle(idx, "rejected")
  /\ UNCHANGED poolChunks
  /\ PoolFrame

PoolWorkerResume ==
  /\ SchedResume
  /\ UNCHANGED poolChunks
  /\ poolCalls' = Begun(poolCalls, calls, calls')
  /\ PoolFrame

PoolFinish ==
  /\ SchedFinish
  /\ UNCHANGED poolVars
  /\ PoolFrame

PoolNext ==
  \/ PoolCall
  \/ \E idx \in 0..(MaxItems - 1) : PoolCallResolve(idx)
  \/ \E idx \in 0..(MaxItems - 1) : PoolCallReject(idx)
  \/ PoolWorkerResume
  \/ PoolFinish

PoolSpec == PoolInit /\ [][PoolNext]_vars

RECURSIVE InFlight(_)
InFlight(S) ==
  IF S = {} THEN 0
  ELSE LET i == CHOOSE x \in S : TRUE
       IN  poolCalls[i].inflight + InFlight(S \ {i})

\* C29: the reviewer calls of one file are made one at a time, a call
\* starting only when the one before has completed, so the reviewer calls in
\* flight over all tasks never exceed the scheduler's effective concurrency.
C29_CallsInFlightBounded ==
  /\ \A i \in DOMAIN poolCalls :
       /\ poolCalls[i].inflight <= 1
       /\ poolCalls[i].started <= TotalCalls(poolChunks[i])
       /\ poolCalls[i].inflight = 1 => hstate[i] = "pending"
       /\ poolCalls[i].started > 0 <=> calls[i] > 0
  /\ InFlight(DOMAIN poolCalls) <= nMax
  /\ InFlight(DOMAIN poolCalls) <= Cardinality(Pending)

C29_Witness ==
  /\ nItems = 3 /\ nMax = 2
  /\ InFlight(DOMAIN poolCalls) = 2
  /\ \E i \in DOMAIN poolCalls :
       poolCalls[i].started = 3 /\ poolCalls[i].inflight = 1

\* ======================== services/CodeReviewRunner.js: CodeReviewRunner.run
\* The settlement of an awaited promise and the code it resumes run as one
\* step: the continuation is a promise job, and the job queue empties before
\* any other completion is delivered.

\* the first idx >= p whose diff is not blank (the worker's `continue`), or
\* Len(ink) + 1 when the loop condition fails first
RECURSIVE FirstInked(_, _)
FirstInked(ink, p) ==
  IF p > Len(ink) THEN p
  ELSE IF ink[p] THEN p
  ELSE FirstInked(ink, p + 1)

\* one worker from `while (nNext < arrFiles.length)` to its await or return
SvcWorkerLoop(ink, p) ==
  LET idx == FirstInked(ink, p)
  IN  IF idx > Len(ink) THEN [next |-> idx, wait |-> 0]
      ELSE [next |-> idx + 1, wait |-> idx]

\* Array.from({ length: nMax }, () => worker()): each worker runs up to its
\* first await before the next one is created
RECURSIVE SvcStartWorkers(_, _, _, _)
SvcStartWorkers(n, ink, p, wait) ==
  IF n = 0 THEN [next |-> p, wait |-> wait]
  ELSE LET w == SvcWorkerLoop(ink, p)
       IN  SvcStartWorkers(n - 1, ink, w.next, Append(wait, w.wait))

\* the paths for which extractUnifiedDiffForFile(strDescribe, path).trim()
\* is empty, for every describe text
BlankSets ==
  {{q \in Paths : ~NonBlank(extractUnifiedDiffForFile(txt, q))} :
     txt \in DescribeTexts}

SvcSettlement(how, docs) == [kind |-> how, docs |-> Len(docs)]

\* await Promise.all(...) and the rest of run: Promise.all rejects with the
\* first worker that raises and is fulfilled when every worker has returned
SvcAfterWorkers(pc, wait, res, docs) ==
  IF pc # "reviewing" THEN [pc |-> pc, settled |-> svcSettled]
  ELSE IF \E w \in DOMAIN wait : wait[w] = -1
    THEN [pc |-> "rejected", settled |-> SvcSettlement("rejected", docs)]
  ELSE IF \E w \in DOMAIN wait : wait[w] > 0
    THEN [pc |-> pc, settled |-> svcSettled]
  ELSE IF svcArgs.bSummary /\ Len(res) > 0
    THEN [pc |-> "awaitSummary", settled |-> svcSettled]
  ELSE [pc |-> "returned", settled |-> SvcSettlement("returned", docs)]

SvcInit ==
  /\ SchedIdle /\ ChunkIdle /\ ReviewIdle /\ RunIdle
  /\ ParseIdle /\ PoolIdle /\ CliIdle /\ ExtIdle
  /\ SvcIdle /\ SwarmIdle /\ ViewedIdle

SvcFrame ==
  /\ UNCHANGED <<schedVars, chunkVars, reviewVars, runVars>>
  /\ UNCHANGED <<parseVars, poolVars, cliVars, extVars, swarmVars, viewedVars>>

\* run(nCl, strInstructionsFile, strOutDir, bShelved, bSummary, nConcurrency)
\* up to `await this.perforce.ensureAvailable()`
SvcCall ==
  /\ svcpc = "idle"
  /\ \E b \in BOOLEAN, c \in 0..MaxSvcConc :
       svcArgs' = [kind |-> "args", bSummary |-> b, nConcurrency |-> c]
  /\ svcpc' = "awaitAvailable"
  /\ UNCHANGED <<svcFiles, svcInk, svcNext, svcWait, svcResults, svcDocs,
                 svcSettled>>
  /\ SvcFrame

\* ensureAvailable() is fulfilled; run asks for the files of the changelist
SvcAvailableResolve ==
  /\ svcpc = "awaitAvailable"
  /\ svcpc' = "awaitFiles"
  /\ UNCHANGED <<svcArgs, svcFiles, svcInk, svcNext, svcWait, svcResults,
                 svcDocs, svcSettled>>
  /\ SvcFrame

\* getChangelistFiles(nCl) is fulfilled: lines 54-60
SvcFilesResolve ==
  /\ svcpc = "awaitFiles"
  /\ \E fs \in SeqsUpTo(Paths, MaxFiles) :
       /\ svcFiles' = fs
       /\ IF Len(fs) = 0
          THEN /\ svcpc' = "rejected"
               /\ svcSettled' = SvcSettlement("rejected", svcDocs)
          ELSE /\ svcpc' = "awaitDescribe"
               /\ UNCHANGED svcSettled
  /\ UNCHANGED <<svcArgs, svcInk, svcNext, svcWait, svcResults, svcDocs>>
  /\ SvcFrame

\* one of the awaits of lines 52-60 is rejected
SvcPreludeReject ==
  /\ svcpc \in {"awaitAvailable", "awaitFiles", "awaitDescribe"}
  /\ svcpc' = "rejected"
  /\ svcSettled' = SvcSettlement("rejected", svcDocs)
  /\ UNCHANGED <<svcArgs, svcFiles, svcInk, svcNext, svcWait, svcResults,
                 svcDocs>>
  /\ SvcFrame

\* getDescribeOutput(nCl, bShelved) is fulfilled: lines 60-90, the workers
\* are created and each runs up to its first await
SvcDescribeResolve ==
  /\ svcpc = "awaitDescribe"
  /\ \E blank \in BlankSets :
       LET ink == [i \in DOMAIN svcFiles |-> svcFiles[i] \notin blank]
           st == SvcStartWorkers(EffectiveConcurrency(svcArgs.nConcurrency),
                                 ink, 1, <<>>)
           after == SvcAfterWorkers("reviewing", st.wait, <<>>, svcDocs)
       IN  /\ svcInk' = ink
           /\ svcNext' = st.next
           /\ svcWait' = st.wait
           /\ svcpc' = after.pc
           /\ svcSettled' = after.settled
  /\ UNCHANGED <<svcArgs, svcFiles, svcResults, svcDocs>>
  /\ SvcFrame

\* reviewDiffForFile of worker w is fulfilled: lines 83-87, the worker's next
\* pass of the loop, and the rest of run when this was the last worker
SvcReviewResolve(w) ==
  /\ w \in DOMAIN svcWait
  /\ svcWait[w] > 0
  /\ LET f == svcFiles[svcWait[w]]
         lp == SvcWorkerLoop(svcInk, svcNext)
         wait == [svcWait EXCEPT ![w] = lp.wait]
         res == Append(svcResults, f)
         docs == Append(svcDocs, f)
         after == SvcAfterWorkers(svcpc, wait, res, docs)
     IN  /\ svcDocs' = docs
         /\ svcResults' = res
         /\ svcNext' = lp.next
         /\ svcWait' = wait
         /\ svcpc' = after.pc
         /\ svcSettled' = after.settled
  /\ UNCHANGED <<svcArgs, svcFiles, svcInk>>
  /\ SvcFrame

\* reviewDiffForFile of worker w is rejected: the worker raises at line 83
SvcReviewReject(w) ==
  /\ w \in DOMAIN svcWait
  /\ svcWait[w] > 0
  /\ LET wait == [svcWait EXCEPT ![w] = -1]
         after == SvcAfterWorkers(svcpc, wait, svcResults, svcDocs)
     IN  /\ svcWait' = wait
         /\ svcpc' = after.pc
         /\ svcSettled' = after.settled
  /\ UNCHANGED <<svcArgs, svcFiles, svcInk, svcNext, svcResults, svcDocs>>
  /\ SvcFrame

\* summarizeAcrossFiles settles: lines 94-98
SvcSummarySettle(ok) ==
  /\ svcpc = "awaitSummary"
  /\ svcpc' = IF ok THEN "returned" ELSE "rejected"
  /\ svcSettled' = SvcSettlement(svcpc', svcDocs)
  /\ UNCHANGED <<svcArgs, svcFiles, svcInk, svcNext, svcWait, svcResults,
                 svcDocs>>
  /\ SvcFrame

SvcNext ==
  \/ SvcCall
  \/ SvcAvailableResolve
  \/ SvcFilesResolve
  \/ SvcPreludeReject
  \/ SvcDescribeResolve
  \/ \E w \in 1..10 : SvcReviewResolve(w)
  \/ \E w \in 1..10 : SvcReviewReject(w)
  \/ \E ok \in BOOLEAN : SvcSummarySettle(ok)

SvcSpec == SvcInit /\ [][SvcNext]_vars

SvcInFlight == {w \in DOMAIN svcWait : svcWait[w] > 0}

\* C31 as stated: in the positional-argument runner, once run has resolved or
\* rejected no reviewer call is in flight and no review document is written
\* afterwards, also when one review call fails while other workers are still
\* reviewing.
C31_SettlesAfterWorkers ==
  svcSettled # NoValue =>
     /\ SvcInFlight = {}
     /\ Len(svcDocs) = svcSettled.docs

\* what does hold: a run that returns has no worker left and wrote every
\* document before it returned
C31_ReturnAfterWorkers ==
  (svcSettled # NoValue /\ svcSettled.kind = "returned") =>
     /\ \A w \in DOMAIN svcWait : svcWait[w] = 0
     /\ Len(svcDocs) = svcSettled.docs
     /\ svcDocs = svcResults

C31_LateDocument ==
  /\ svcSettled # NoValue /\ svcSettled.kind = "rejected"
  /\ Len(svcDocs) > svcSettled.docs

\* ============================================= runConcurrent under fairness
\* Some pending handler call settles: the premise that every handler call
\* eventually settles.  A worker whose await has settled and the code after
\* Promise.all are promise jobs, which the event loop always runs.
SomeHandlerSettles ==
  \E idx \in 0..(MaxItems - 1), out \in {"value", "undefined", "rejected"} :
    HandlerSettle(idx, out)

LiveSpec ==
  /\ Init
  /\ [][Next]_vars
  /\ WF_vars(SomeHandlerSettles)
  /\ WF_vars(WorkerResume)
  /\ WF_vars(Finish)

\* C32: if every handler call eventually settles, a runConcurrent call
\* eventually returns or raises with every worker gone; with taskCount = 0
\* it returns the empty list and the handler is never called.
C32_EventuallySettles ==
  /\ (phase = "running") ~> (Finished /\ AllWorkersDone)
  /\ []((phase # "idle" /\ nItems = 0) =>
          /\ nNext = nMax
          /\ \A w \in DOMAIN wpc : wpc[w] = "done" /\ widx[w] = -1
          /\ returned = <<>> /\ thrown = NoError)
  /\ (phase = "running" /\ nItems = 0) ~> (phase = "returned")

C32_Witness ==
  /\ phase = "thrown"
  /\ nItems = MaxItems
  /\ nMax = 2
  /\ Cardinality(Failed) = 1
  /\ Len(results) = 2

Valued == {i \in DOMAIN hstate : hstate[i] = "value"}

\* the defined values of the handler calls whose continuation is queued
RECURSIVE QueuedValues(_)
QueuedValues(js) ==
  IF js = <<>> THEN <<>>
  ELSE LET idx == widx[Head(js)]
       IN  (IF hstate[idx] = "value" THEN <<ResOf(idx)>> ELSE <<>>)
             \o QueuedValues(Tail(js))

\* the defined values in the order their handler calls completed
Completed == results \o QueuedValues(jobs)

\* C33: when no task fails the returned list holds exactly one entry for each
\* task whose handler returned a defined value, none lost or duplicated and
\* undefined results left out, in order of task completion; with effective
\* concurrency 1 that is ascending index order.
C33_OneEntryPerDefinedResult ==
  /\ [](phase = "returned" =>
          /\ Failed = {}
          /\ Len(returned) = Cardinality(Valued)
          /\ {returned[k] : k \in DOMAIN returned} = {ResOf(i) : i \in Valued}
          /\ returned = Completed
          /\ nMax = 1 =>
               returned = [k \in 1..Cardinality(Valued) |->
                             ResOf(Ascending(Valued)[k])])
  /\ [][\/ Completed' = Completed
        \/ \E i \in Pending :
             /\ hstate'[i] = "value"
             /\ Completed' = Append(Completed, ResOf(i))]_vars

C33_Witness ==
  /\ phase = "returned"
  /\ nItems = 3 /\ nMax = 2
  /\ hstate[0] = "value" /\ hstate[1] = "value" /\ hstate[2] = "undefined"
  /\ returned = <<ResOf(1), ResOf(0)>>

\* the diff2 requests made and not yet settled
Diff2InFlight == vcs.diff2 - Cardinality(Fetched)

\* C34: the fallback issues its diff2 requests one at a time, in the order of
\* the summary entries, never with two requests in flight, and the FileDiffs
\* it returns keep that order.
C34_OneRequestAtATimeInOrder ==
  /\ [](runpc \in {"awaitDiff2", "fallbackDone"} =>
          /\ Diff2InFlight = (IF runpc = "awaitDiff2" THEN 1 ELSE 0)
          /\ PathsOf(fbDiffs) = FetchedOk(entries, fbOutcomes)
          /\ runpc = "awaitDiff2" =>
               /\ vcs.last.op = "diff2"
               /\ vcs.last.file = entries[eI].file
               /\ \A k \in DOMAIN entries : k >= eI => k \notin Fetched)
  /\ [][runpc' = "awaitDiff2" =>
          \/ runpc = "awaitSummary" /\ vcs'.diff2 = 1
          \/ /\ runpc = "awaitDiff2"
             /\ entries' = entries
             /\ eI' > eI
             /\ vcs'.diff2 = vcs.diff2 + 1]_vars

C34_Witness ==
  /\ runpc = "fallbackDone"
  /\ Len(entries) = 2
  /\ entries[1].file # entries[2].file
  /\ fbOutcomes = <<"ok", "ok">>
  /\ PathsOf(fbDiffs) = <<entries[1].file, entries[2].file>>
  /\ vcs.diff2 = 2

\* ========================================= PerforceService.getChangelistFiles
\* A line of `p4 describe -s` output: the 'Affected files ...' marker, a line
\* that is empty after trim(), a file line '... <path>#<rev> <action>', or
\* any other text.
ChangeLine(k, path) == [kind |-> k, path |-> path]
ChangeLines ==
  {ChangeLine(k, NoPath) : k \in {"marker", "blank", "other"}}
    \cup {ChangeLine("file", q) : q \in Paths}
ChangeTexts == Texts(ChangeLines, MaxLines)

\* the loop of getChangelistFiles from line i on: startsWith('Affected files
\* ...'), `if (!strLine.trim()) break`, and the match of
\* /^\.\.\.\s+([^#\s]+)#\d+\s+\w+/ whose first group is pushed
RECURSIVE ScanChangeLines(_, _, _, _)
ScanChangeLines(ls, i, bInFiles, arrFiles) ==
  IF i > Len(ls) THEN arrFiles
  ELSE IF ls[i].kind = "marker" THEN ScanChangeLines(ls, i + 1, TRUE, arrFiles)
  ELSE IF ~bInFiles THEN ScanChangeLines(ls, i + 1, bInFiles, arrFiles)
  ELSE IF ls[i].kind = "blank" THEN arrFiles
  ELSE IF ls[i].kind = "file"
    THEN ScanChangeLines(ls, i + 1, bInFiles, Append(arrFiles, ls[i].path))
  ELSE ScanChangeLines(ls, i + 1, bInFiles, arrFiles)

getChangelistFiles(ls) == ScanChangeLines(ls, 1, FALSE, <<>>)

FilesInit ==
  /\ SchedIdle /\ ChunkIdle /\ ReviewIdle /\ RunIdle
  /\ PoolIdle /\ CliIdle /\ ExtIdle /\ LateIdle
  /\ ppc = "ready"
  /\ pIn \in {[op |-> "changelist", text |-> t, path |-> NoPath] :
                t \in ChangeTexts}
  /\ pOut = NoValue

GetChangelistFilesCall ==
  /\ ppc = "ready" /\ pIn.op = "changelist"
  /\ pOut' = Returned("getChangelistFiles", getChangelistFiles(pIn.text),
                      <<>>, <<>>, <<>>)
  /\ ParseFrame

FilesNext == GetChangelistFilesCall

FilesSpec == FilesInit /\ [][FilesNext]_vars

Markers(ls) == {k \in DOMAIN ls : ls[k].kind = "marker"}

\* the paths of the file lines of ls at positions after `from`, in order
RECURSIVE FileLinesAfter(_, _)
FileLinesAfter(ls, from) ==
  IF from >= Len(ls) THEN <<>>
  ELSE (IF ls[from + 1].kind = "file" THEN <<ls[from + 1].path>> ELSE <<>>)
         \o FileLinesAfter(ls, from + 1)

\* C35 as stated: getChangelistFiles returns, in order, the depot path of
\* every file line after the 'Affected files ...' marker line, also when a
\* blank line separates the marker from the first file line, and never a line
\* before the marker.
C35_FilesAfterMarker ==
  Called("getChangelistFiles") =>
     LET ls == pIn.text
     IN  pOut.files = (IF Markers(ls) = {} THEN <<>>
                       ELSE FileLinesAfter(ls, MinOf(Markers(ls))))

\* the output p4 prints: marker, empty line, file line
C35_BlankAfterMarker ==
  /\ Called("getChangelistFiles")
  /\ Len(pIn.text) = 3
  /\ pIn.text[1].kind = "marker"
  /\ pIn.text[2].kind = "blank"
  /\ pIn.text[3].kind = "file"
  /\ pOut.files = <<>>

\* ================================= PerforceService.getChangeListInfoForUser
\* new ChangeListInfo(...): this.loading = true, swarmReviewId undefined (0)
ChangeListInfo == [loading |-> TRUE, fetch |-> "none", swarmReviewId |-> 0]

\* batch.map((cl) => this._populateSwarmInfo(cl, swarmUrl)): each call runs up
\* to `await this.fetchSwarmReview(...)`
StartBatch(infos, batch) ==
  [i \in DOMAIN infos |->
     IF i \in batch THEN [infos[i] EXCEPT !.fetch = "inflight"] ELSE infos[i]]

\* result.slice(0, initialFetchCount) and infoList.slice(i, i + batchSize)
BatchFrom(first, n) == {i \in 1..n : first <= i /\ i < first + SwarmBatch}

\* _populateSwarmInfo after its await: review is {id, state} or undefined
\* (fetchSwarmReview catches its own failures and returns undefined)
Populated(info, review) ==
  [info EXCEPT !.fetch = "done", !.loading = FALSE,
               !.swarmReviewId = IF review = "review" THEN 1 ELSE @]

SwarmInit ==
  /\ SchedIdle /\ ChunkIdle /\ ReviewIdle /\ RunIdle
  /\ ParseIdle /\ PoolIdle /\ CliIdle /\ ExtIdle
  /\ SvcIdle /\ SwarmIdle /\ ViewedIdle

SwarmFrame ==
  /\ UNCHANGED <<schedVars, chunkVars, reviewVars, runVars>>
  /\ UNCHANGED <<parseVars, poolVars, cliVars, extVars, svcVars, viewedVars>>

\* getChangeListInfoForUser(strUser, swarmUrl, onUpdate) up to the await of
\* `p4 changes` (p4 being available)
SwarmCall ==
  /\ swpc = "idle"
  /\ swUrl' \in BOOLEAN
  /\ swpc' = "awaitChanges"
  /\ UNCHANGED <<swInfos, swBatch>>
  /\ SwarmFrame

\* `p4 changes -l -u <user>` printed n changelists: lines 337-383
SwarmChangesResolve ==
  /\ swpc = "awaitChanges"
  /\ \E n \in 0..MaxChanges :
       LET result == [i \in 1..n |-> ChangeListInfo]
           batch == BatchFrom(1, n)
       IN  IF swUrl /\ n > 0
             THEN /\ swInfos' = StartBatch(result, batch)
                  /\ swBatch' = batch
                  /\ swpc' = "awaitInitial"
             ELSE /\ swInfos' = result
                  /\ swBatch' = {}
                  /\ swpc' = "returned"
  /\ UNCHANGED swUrl
  /\ SwarmFrame

\* `p4 -V` or `p4 changes` fails
SwarmChangesReject ==
  /\ swpc = "awaitChanges"
  /\ swpc' = "rejected"
  /\ UNCHANGED <<swUrl, swInfos, swBatch>>
  /\ SwarmFrame

\* fetchSwarmReview for changelist i settles: _populateSwarmInfo finishes, and
\* when it was the last of its batch the code after Promise.all runs: the
\* rest of getChangeListInfoForUser (lines 376-383) or the next round of the
\* loop of _fetchRemainingReviews
SwarmFetchSettle(i, review) ==
  /\ i \in DOMAIN swInfos
  /\ swInfos[i].fetch = "inflight"
  /\ LET infos == [swInfos EXCEPT ![i] = Populated(@, review)]
         last == \A j \in swBatch : infos[j].fetch = "done"
         next == BatchFrom(MinOf(swBatch) + SwarmBatch, Len(swInfos))
     IN  IF last
           THEN /\ swInfos' = StartBatch(infos, next)
                /\ swBatch' = next
                /\ swpc' = "returned"
           ELSE /\ swInfos' = infos
                /\ UNCHANGED <<swBatch, swpc>>
  /\ UNCHANGED swUrl
  /\ SwarmFrame

SwarmFetchSettles ==
  \E i \in 1..MaxChanges, review \in {"review", "none"} :
    SwarmFetchSettle(i, review)

SwarmNext ==
  \/ SwarmCall
  \/ SwarmChangesResolve
  \/ SwarmChangesReject
  \/ SwarmFetchSettles

\* every fetch that was started settles
SwarmSpec == SwarmInit /\ [][SwarmNext]_vars /\ WF_vars(SwarmFetchSettles)

Loading == {i \in DOMAIN swInfos : swInfos[i].loading}

\* C36 as stated: every ChangeListInfo that getChangeListInfoForUser returned
\* eventually has loading = false, whether its Swarm lookup succeeds, fails
\* or is not performed because there is no Swarm URL.
C36_LoadingEventuallyCleared ==
  (swpc = "returned") ~> (Loading = {})

\* what does hold: with a Swarm URL every flag is cleared in the end, those
\* beyond the first batch by the background batches
C36_ClearedWithUrl ==
  /\ (swpc = "returned" /\ swUrl) ~> (Loading = {} /\ swBatch = {})
  /\ [](swpc = "returned" /\ swUrl =>
          \A i \in BatchFrom(1, Len(swInfos)) : ~swInfos[i].loading)
  /\ [](swpc = "returned" /\ ~swUrl => Loading = DOMAIN swInfos)

C36_NeverCleared ==
  /\ swpc = "returned" /\ ~swUrl
  /\ Loading = DOMAIN swInfos
  /\ Len(swInfos) = MaxChanges

\* ========================================================= ViewedStateService
\* vscode.Memento: get(key) gives the value stored under key or undefined;
\* update(key, value) replaces it at once (its promise is about persistence)
\* and update(key, undefined) removes the key.
MementoGet(storage, key) ==
  IF key \in DOMAIN storage THEN storage[key] ELSE NoValue

MementoUpdate(storage, key, value) ==
  IF value = NoValue
    THEN [k \in DOMAIN storage \ {key} |-> storage[k]]
    ELSE [k \in DOMAIN storage \cup {key} |->
            IF k = key THEN value ELSE storage[k]]

\* `${this._keyPrefix}${changelistNum}`
SharedStorageKey(changelistNum) == <<"viewed_files_">>
StorageKey(changelistNum) == <<"viewed_files_", changelistNum>>

\* a stored list, and Array.isArray(rawList)
Array(items) == [kind |-> "array", items |-> items]
IsArray(v) == v.kind = "array"

\* new Set(rawList) and Array.from(set): the members in insertion order,
\* each once
RECURSIVE SetOfList(_, _)
SetOfList(rawList, seen) ==
  IF rawList = <<>> THEN seen
  ELSE SetOfList(Tail(rawList),
                 IF \E k \in DOMAIN seen : seen[k] = Head(rawList)
                   THEN seen ELSE Append(seen, Head(rawList)))

GetViewedSet(storage, key) ==
  LET rawList == MementoGet(storage, key)
  IN  IF IsArray(rawList) THEN SetOfList(rawList.items, <<>>) ELSE <<>>

Has(set, x) == \E k \in DOMAIN set : set[k] = x

\* `!changelistNum` and `!depotPath`
NoChangelist(changelistNum) == changelistNum = 0
NoDepotPath(depotPath) == depotPath = NoPath

isViewed(storage, changelistNum, depotPath) ==
  IF NoChangelist(changelistNum) \/ NoDepotPath(depotPath) THEN FALSE
  ELSE Has(GetViewedSet(storage, StorageKey(changelistNum)), depotPath)

\* the depot paths given to the service
ViewedPaths == {<<"a">>, <<"b">>}

ViewedCall(op, cl, path, wrote) ==
  [kind |-> op, cl |-> cl, path |-> path, wrote |-> wrote]

ViewedInit ==
  /\ SchedIdle /\ ChunkIdle /\ ReviewIdle /\ RunIdle
  /\ ParseIdle /\ PoolIdle /\ CliIdle /\ ExtIdle
  /\ SvcIdle /\ SwarmIdle /\ ViewedIdle

ViewedFrame ==
  /\ UNCHANGED <<schedVars, chunkVars, reviewVars, runVars>>
  /\ UNCHANGED <<parseVars, poolVars, cliVars, extVars, svcVars, swarmVars>>

\* markAsViewed(changelistNum, depotPath)
MarkAsViewed ==
  \E cl \in 0..MaxCl, path \in ViewedPaths \cup {NoPath} :
    /\ IF NoChangelist(cl) \/ NoDepotPath(path)
         THEN /\ UNCHANGED vsStorage
              /\ vsLast' = ViewedCall("mark", cl, path, FALSE)
         ELSE LET key == StorageKey(cl)
                  currentSet == GetViewedSet(vsStorage, key)
              IN  IF ~Has(currentSet, path)
                    THEN /\ vsStorage' = MementoUpdate(vsStorage, key,
                                            Array(Append(currentSet, path)))
                         /\ vsLast' = ViewedCall("mark", cl, path, TRUE)
                    ELSE /\ UNCHANGED vsStorage
                         /\ vsLast' = ViewedCall("mark", cl, path, FALSE)
    /\ ViewedFrame

\* clearViewedState(changelistNum)
ClearViewedState ==
  \E cl \in 0..MaxCl :
    /\ IF NoChangelist(cl)
         THEN /\ UNCHANGED vsStorage
              /\ vsLast' = ViewedCall("clear", cl, NoPath, FALSE)
         ELSE /\ vsStorage' = MementoUpdate(vsStorage, StorageKey(cl), NoValue)
              /\ vsLast' = ViewedCall("clear", cl, NoPath, TRUE)
    /\ ViewedFrame

ViewedNext ==
  \/ MarkAsViewed
  \/ ClearViewedState

ViewedSpec == ViewedInit /\ [][ViewedNext]_vars

Viewed(cl) == {q \in ViewedPaths : isViewed(vsStorage, cl, q)}

\* C37: ViewedStateService keeps one set of viewed paths per changelist
\* (changelist numbers and paths being non-empty values): after
\* markAsViewed(cl, p), isViewed(cl, p) holds and keeps holding under further
\* markAsViewed calls until clearViewedState(cl); after clearViewedState(cl),
\* isViewed(cl, q) is false for every q; marking a path already viewed writes
\* nothing; and marking or clearing one changelist never changes isViewed for
\* another.
C37_ViewedSetPerChangelist ==
  [][/\ (vsLast'.kind = "mark" /\ vsLast'.cl # 0 /\ vsLast'.path # NoPath) =>
          isViewed(vsStorage', vsLast'.cl, vsLast'.path)
     /\ (vsLast'.kind = "clear" /\ vsLast'.cl # 0) =>
          \A q \in ViewedPaths : ~isViewed(vsStorage', vsLast'.cl, q)
     /\ \A cl \in 1..MaxCl :
          LET before == Viewed(cl)
              after == Viewed(cl)'
          IN  /\ vsLast'.kind = "mark" => before \subseteq after
              /\ vsLast'.kind = "clear" => after \subseteq before
              /\ (vsLast'.kind = "mark" /\ vsLast'.cl = cl
                    /\ vsLast'.path \in before) =>
                   (~vsLast'.wrote /\ vsStorage' = vsStorage)
              /\ vsLast'.cl # cl => after = before]_vars

C37_Witness ==
  /\ vsLast = ViewedCall("mark", 1, <<"a">>, FALSE)
  /\ Viewed(1) = {<<"a">>, <<"b">>}
  /\ Viewed(2) = {<<"b">>}

====
